---- MODULE Spec2Model ----
(***************************************************************************)
(* Model of the exif-io tag registry and value model: the primitive value   *)
(* kinds of src/types.rs, the Image IFD0 field enumeration of               *)
(* src/tag/image.rs and the Tag sum type of src/tag.rs.                     *)
(***************************************************************************)
EXTENDS Integers, Sequences, FiniteSets, TLC

VARIABLES pc, a, b, eq, prim, fx, fy, feq, query, found, enc, dec, dec2, held, ret, threads, heap

vars == <<pc, a, b, eq, prim, fx, fy, feq, query, found, enc, dec, dec2, held, ret, threads, heap>>

tagVars == <<a, b, eq>>

primVars == <<prim, fx, fy, feq>>

lookupVars == <<query, found>>

codecVars == <<enc, dec, dec2>>

facadeVars == <<held, ret>>

threadVars == <<threads>>

heapVars == <<heap>>

(* Bounds of the model. *)
MaxPayloads == 2

MaxNum == 2

None == [none |-> TRUE]

Min(x, y) == IF x < y THEN x ELSE y

(***************************************************************************)
(* src/types.rs: the integer kinds, by width and signedness.                *)
(***************************************************************************)
Byte == [bits |-> 8, signed |-> FALSE]

SShort == [bits |-> 16, signed |-> TRUE]

ShortSigned == [bits |-> 16, signed |-> TRUE]

Short == [bits |-> 16, signed |-> FALSE]

SLong == [bits |-> 32, signed |-> TRUE]

Long == [bits |-> 32, signed |-> FALSE]

IntKinds == [Byte |-> Byte, SShort |-> SShort, Short |-> Short, SLong |-> SLong, Long |-> Long]

(***************************************************************************)
(* src/tag/image.rs: the variants of enum Image in declaration order, each  *)
(* with its explicit discriminant and the types of its tuple fields.        *)
(***************************************************************************)
Image ==
  <<
    [name |-> "ProcessingSoftware", code |-> \h000B, fields |-> <<"Ascii">>],
    [name |-> "NewSubfileType", code |-> \h00FE, fields |-> <<"Long">>],
    [name |-> "SubfileType", code |-> \h00FF, fields |-> <<"Short">>],
    [name |-> "ImageWidth", code |-> \h0100, fields |-> <<"Long">>],
    [name |-> "ImageLength", code |-> \h0101, fields |-> <<"Long">>],
    [name |-> "BitsPerSample", code |-> \h0102, fields |-> <<"Short">>],
    [name |-> "Compression", code |-> \h0103, fields |-> <<"Short">>],
    [name |-> "PhotometricInterpretation", code |-> \h0106, fields |-> <<"Short">>],
    [name |-> "Thresholding", code |-> \h0107, fields |-> <<"Short">>],
    [name |-> "CellWidth", code |-> \h0108, fields |-> <<"Short">>],
    [name |-> "CellLength", code |-> \h0109, fields |-> <<"Short">>],
    [name |-> "FillOrder", code |-> \h010A, fields |-> <<"Short">>],
    [name |-> "DocumentName", code |-> \h010D, fields |-> <<"Ascii">>],
    [name |-> "ImageDescription", code |-> \h010E, fields |-> <<"Ascii">>],
    [name |-> "Make", code |-> \h010F, fields |-> <<"Ascii">>],
    [name |-> "Model", code |-> \h0110, fields |-> <<"Ascii">>],
    [name |-> "StripOffsets", code |-> \h0111, fields |-> <<"Long">>],
    [name |-> "Orientation", code |-> \h0112, fields |-> <<"Short">>],
    [name |-> "SamplesPerPixel", code |-> \h0115, fields |-> <<"Short">>],
    [name |-> "RowsPerStrip", code |-> \h0116, fields |-> <<"Long">>],
    [name |-> "StripByteCounts", code |-> \h0117, fields |-> <<"Long">>],
    [name |-> "XResolution", code |-> \h011A, fields |-> <<"Rational">>],
    [name |-> "YResolution", code |-> \h011B, fields |-> <<"Rational">>],
    [name |-> "PlanarConfiguration", code |-> \h011C, fields |-> <<"Short">>],
    [name |-> "PageName", code |-> \h011D, fields |-> <<"Ascii">>],
    [name |-> "XPosition", code |-> \h011E, fields |-> <<"Rational">>],
    [name |-> "YPosition", code |-> \h011F, fields |-> <<"Rational">>],
    [name |-> "GrayResponseUnit", code |-> \h0122, fields |-> <<"Short">>],
    [name |-> "GrayResponseCurve", code |-> \h0123, fields |-> <<"Short">>],
    [name |-> "T4Options", code |-> \h0124, fields |-> <<"Long">>],
    [name |-> "T6Options", code |-> \h0125, fields |-> <<"Long">>],
    [name |-> "ResolutionUnit", code |-> \h0128, fields |-> <<"Short">>],
    [name |-> "PageNumber", code |-> \h0129, fields |-> <<"Short">>],
    [name |-> "TransferFunction", code |-> \h012D, fields |-> <<"Short">>],
    [name |-> "Software", code |-> \h0131, fields |-> <<"Ascii">>],
    [name |-> "DateTime", code |-> \h0132, fields |-> <<"Ascii">>],
    [name |-> "Artist", code |-> \h013B, fields |-> <<"Ascii">>],
    [name |-> "HostComputer", code |-> \h013C, fields |-> <<"Ascii">>],
    [name |-> "Predictor", code |-> \h013D, fields |-> <<"Short">>],
    [name |-> "WhitePoint", code |-> \h013E, fields |-> <<"Rational">>],
    [name |-> "PrimaryChromaticities", code |-> \h013F, fields |-> <<"Rational">>],
    [name |-> "ColorMap", code |-> \h0140, fields |-> <<"Short">>],
    [name |-> "HalftoneHints", code |-> \h0141, fields |-> <<"Short">>],
    [name |-> "TileWidth", code |-> \h0142, fields |-> <<"Long">>],
    [name |-> "TileLength", code |-> \h0143, fields |-> <<"Long">>],
    [name |-> "TileOffsets", code |-> \h0144, fields |-> <<"Short">>],
    [name |-> "TileByteCounts", code |-> \h0145, fields |-> <<"Long">>],
    [name |-> "SubIFDs", code |-> \h014A, fields |-> <<"Long">>],
    [name |-> "InkSet", code |-> \h014C, fields |-> <<"Short">>],
    [name |-> "InkNames", code |-> \h014D, fields |-> <<"Ascii">>],
    [name |-> "NumberOfInks", code |-> \h014E, fields |-> <<"Short">>],
    [name |-> "DotRange", code |-> \h0150, fields |-> <<"Byte">>],
    [name |-> "TargetPrinter", code |-> \h0151, fields |-> <<"Ascii">>],
    [name |-> "ExtraSamples", code |-> \h0152, fields |-> <<"Short">>],
    [name |-> "SampleFormat", code |-> \h0153, fields |-> <<"Short">>],
    [name |-> "SMinSampleValue", code |-> \h0154, fields |-> <<"Short">>],
    [name |-> "SMaxSampleValue", code |-> \h0155, fields |-> <<"Short">>],
    [name |-> "TransferRange", code |-> \h0156, fields |-> <<"Short">>],
    [name |-> "ClipPath", code |-> \h0157, fields |-> <<"Byte">>],
    [name |-> "XClipPathUnits", code |-> \h0158, fields |-> <<"SShort">>],
    [name |-> "YClipPathUnits", code |-> \h0159, fields |-> <<"SShort">>],
    [name |-> "Indexed", code |-> \h015A, fields |-> <<"Short">>],
    [name |-> "JPEGTables", code |-> \h015B, fields |-> <<"Undefined">>],
    [name |-> "OPIProxy", code |-> \h015F, fields |-> <<"Short">>],
    [name |-> "JPEGProc", code |-> \h0200, fields |-> <<"Long">>],
    [name |-> "JPEGInterchangeFormat", code |-> \h0201, fields |-> <<"Long">>],
    [name |-> "JPEGInterchangeFormatLength", code |-> \h0202, fields |-> <<"Long">>],
    [name |-> "JPEGRestartInterval", code |-> \h0203, fields |-> <<"Short">>],
    [name |-> "JPEGLosslessPredictors", code |-> \h0205, fields |-> <<"Short">>],
    [name |-> "JPEGPointTransforms", code |-> \h0206, fields |-> <<"Short">>],
    [name |-> "JPEGQTables", code |-> \h0207, fields |-> <<"Long">>],
    [name |-> "JPEGDCTables", code |-> \h0208, fields |-> <<"Long">>],
    [name |-> "JPEGACTables", code |-> \h0209, fields |-> <<"Long">>],
    [name |-> "YCbCrCoefficients", code |-> \h0211, fields |-> <<"Rational">>],
    [name |-> "YCbCrSubSampling", code |-> \h0212, fields |-> <<"Short">>],
    [name |-> "YCbCrPositioning", code |-> \h0213, fields |-> <<"Short">>],
    [name |-> "ReferenceBlackWhite", code |-> \h0214, fields |-> <<"Rational">>],
    [name |-> "XMLPacket", code |-> \h02BC, fields |-> <<"Byte">>],
    [name |-> "Rating", code |-> \h4746, fields |-> <<"Short">>],
    [name |-> "RatingPercent", code |-> \h4749, fields |-> <<"Short">>],
    [name |-> "VignettingCorrParams", code |-> \h7032, fields |-> <<"SShort">>],
    [name |-> "ChromaticAberrationCorrParams", code |-> \h7035, fields |-> <<"SShort">>],
    [name |-> "DistortionCorrParams", code |-> \h7037, fields |-> <<"SShort">>],
    [name |-> "ImageID", code |-> \h800D, fields |-> <<"Ascii">>],
    [name |-> "CFARepeatPatternDim", code |-> \h828D, fields |-> <<"Short">>],
    [name |-> "CFAPattern", code |-> \h828E, fields |-> <<"Byte">>],
    [name |-> "BatteryLevel", code |-> \h828F, fields |-> <<"Rational">>],
    [name |-> "Copyright", code |-> \h8298, fields |-> <<"Ascii">>],
    [name |-> "ExposureTime", code |-> \h829A, fields |-> <<"Rational">>],
    [name |-> "FNumber", code |-> \h829D, fields |-> <<"Rational">>],
    [name |-> "IPTCNAA", code |-> \h83BB, fields |-> <<"Long">>],
    [name |-> "ImageResources", code |-> \h8649, fields |-> <<"Byte">>],
    [name |-> "ExifTag", code |-> \h8769, fields |-> <<"Long">>],
    [name |-> "InterColorProfile", code |-> \h8773, fields |-> <<"Undefined">>],
    [name |-> "ExposureProgram", code |-> \h8822, fields |-> <<"Short">>],
    [name |-> "SpectralSensitivity", code |-> \h8824, fields |-> <<"Ascii">>],
    [name |-> "GPSTag", code |-> \h8825, fields |-> <<"Long">>],
    [name |-> "ISOSpeedRatings", code |-> \h8827, fields |-> <<"Short">>],
    [name |-> "OECF", code |-> \h8828, fields |-> <<"Undefined">>],
    [name |-> "Interlace", code |-> \h8829, fields |-> <<"Short">>],
    [name |-> "TimeZoneOffset", code |-> \h882A, fields |-> <<"SShort">>],
    [name |-> "SelfTimerMode", code |-> \h882B, fields |-> <<"Short">>],
    [name |-> "DateTimeOriginal", code |-> \h9003, fields |-> <<"Ascii">>],
    [name |-> "CompressedBitsPerPixel", code |-> \h9102, fields |-> <<"Rational">>],
    [name |-> "ShutterSpeedValue", code |-> \h9201, fields |-> <<"SRational">>],
    [name |-> "ApertureValue", code |-> \h9202, fields |-> <<"Rational">>],
    [name |-> "BrightnessValue", code |-> \h9203, fields |-> <<"SRational">>],
    [name |-> "ExposureBiasValue", code |-> \h9204, fields |-> <<"SRational">>],
    [name |-> "MaxApertureValue", code |-> \h9205, fields |-> <<"Rational">>],
    [name |-> "SubjectDistance", code |-> \h9206, fields |-> <<"SRational">>],
    [name |-> "MeteringMode", code |-> \h9207, fields |-> <<"Short">>],
    [name |-> "LightSource", code |-> \h9208, fields |-> <<"Short">>],
    [name |-> "Flash", code |-> \h9209, fields |-> <<"Short">>],
    [name |-> "FocalLength", code |-> \h920A, fields |-> <<"Rational">>],
    [name |-> "FlashEnergy", code |-> \h920B, fields |-> <<"Rational">>],
    [name |-> "SpatialFrequencyResponse", code |-> \h920C, fields |-> <<"Undefined">>],
    [name |-> "Noise", code |-> \h920D, fields |-> <<"Undefined">>],
    [name |-> "FocalPlaneXResolution", code |-> \h920E, fields |-> <<"Rational">>],
    [name |-> "FocalPlaneYResolution", code |-> \h920F, fields |-> <<"Rational">>],
    [name |-> "FocalPlaneResolutionUnit", code |-> \h9210, fields |-> <<"Short">>],
    [name |-> "ImageNumber", code |-> \h9211, fields |-> <<"Long">>],
    [name |-> "SecurityClassification", code |-> \h9212, fields |-> <<"Ascii">>],
    [name |-> "ImageHistory", code |-> \h9213, fields |-> <<"Ascii">>],
    [name |-> "SubjectLocation", code |-> \h9214, fields |-> <<"Short">>],
    [name |-> "ExposureIndex", code |-> \h9215, fields |-> <<"Rational">>],
    [name |-> "TIFFEPStandardID", code |-> \h9216, fields |-> <<"Byte">>],
    [name |-> "SensingMethod", code |-> \h9217, fields |-> <<"Short">>],
    [name |-> "XPTitle", code |-> \h9C9B, fields |-> <<"Byte">>],
    [name |-> "XPComment", code |-> \h9C9C, fields |-> <<"Byte">>],
    [name |-> "XPAuthor", code |-> \h9C9D, fields |-> <<"Byte">>],
    [name |-> "XPKeywords", code |-> \h9C9E, fields |-> <<"Byte">>],
    [name |-> "XPSubject", code |-> \h9C9F, fields |-> <<"Byte">>],
    [name |-> "PrintImageMatching", code |-> \hC4A5, fields |-> <<"Undefined">>],
    [name |-> "DNGVersion", code |-> \hC612, fields |-> <<"Byte">>],
    [name |-> "DNGBackwardVersion", code |-> \hC613, fields |-> <<"Byte">>],
    [name |-> "UniqueCameraModel", code |-> \hC614, fields |-> <<"Ascii">>],
    [name |-> "LocalizedCameraModel", code |-> \hC615, fields |-> <<"Byte">>],
    [name |-> "CFAPlaneColor", code |-> \hC616, fields |-> <<"Byte">>],
    [name |-> "CFALayout", code |-> \hC617, fields |-> <<"Short">>],
    [name |-> "LinearizationTable", code |-> \hC618, fields |-> <<"Short">>],
    [name |-> "BlackLevelRepeatDim", code |-> \hC619, fields |-> <<"Short">>],
    [name |-> "BlackLevel", code |-> \hC61A, fields |-> <<"Rational">>],
    [name |-> "BlackLevelDeltaH", code |-> \hC61B, fields |-> <<"SRational">>],
    [name |-> "BlackLevelDeltaV", code |-> \hC61C, fields |-> <<"SRational">>],
    [name |-> "WhiteLevel", code |-> \hC61D, fields |-> <<"Long">>],
    [name |-> "DefaultScale", code |-> \hC61E, fields |-> <<"Rational">>],
    [name |-> "DefaultCropOrigin", code |-> \hC61F, fields |-> <<"Long">>],
    [name |-> "DefaultCropSize", code |-> \hC620, fields |-> <<"Long">>],
    [name |-> "ColorMatrix1", code |-> \hC621, fields |-> <<"SRational">>],
    [name |-> "ColorMatrix2", code |-> \hC622, fields |-> <<"SRational">>],
    [name |-> "CameraCalibration1", code |-> \hC623, fields |-> <<"SRational">>],
    [name |-> "CameraCalibration2", code |-> \hC624, fields |-> <<"SRational">>],
    [name |-> "ReductionMatrix1", code |-> \hC625, fields |-> <<"SRational">>],
    [name |-> "ReductionMatrix2", code |-> \hC626, fields |-> <<"SRational">>],
    [name |-> "AnalogBalance", code |-> \hC627, fields |-> <<"Rational">>],
    [name |-> "AsShotNeutral", code |-> \hC628, fields |-> <<"Short">>],
    [name |-> "AsShotWhiteXY", code |-> \hC629, fields |-> <<"Rational">>],
    [name |-> "BaselineExposure", code |-> \hC62A, fields |-> <<"SRational">>],
    [name |-> "BaselineNoise", code |-> \hC62B, fields |-> <<"Rational">>],
    [name |-> "BaselineSharpness", code |-> \hC62C, fields |-> <<"Rational">>],
    [name |-> "BayerGreenSplit", code |-> \hC62D, fields |-> <<"Long">>],
    [name |-> "LinearResponseLimit", code |-> \hC62E, fields |-> <<"Rational">>],
    [name |-> "CameraSerialNumber", code |-> \hC62F, fields |-> <<"Ascii">>],
    [name |-> "LensInfo", code |-> \hC630, fields |-> <<"Rational">>],
    [name |-> "ChromaBlurRadius", code |-> \hC631, fields |-> <<"Rational">>],
    [name |-> "AntiAliasStrength", code |-> \hC632, fields |-> <<"Rational">>],
    [name |-> "ShadowScale", code |-> \hC633, fields |-> <<"SRational">>],
    [name |-> "DNGPrivateData", code |-> \hC634, fields |-> <<"Byte">>],
    [name |-> "MakerNoteSafety", code |-> \hC635, fields |-> <<"Short">>],
    [name |-> "CalibrationIlluminant1", code |-> \hC65A, fields |-> <<"Short">>],
    [name |-> "CalibrationIlluminant2", code |-> \hC65B, fields |-> <<"Short">>],
    [name |-> "BestQualityScale", code |-> \hC65C, fields |-> <<"Rational">>],
    [name |-> "RawDataUniqueID", code |-> \hC65D, fields |-> <<"Byte">>],
    [name |-> "OriginalRawFileName", code |-> \hC68B, fields |-> <<"Byte">>],
    [name |-> "OriginalRawFileData", code |-> \hC68C, fields |-> <<"Undefined">>],
    [name |-> "ActiveArea", code |-> \hC68D, fields |-> <<"Long">>],
    [name |-> "MaskedAreas", code |-> \hC68E, fields |-> <<"Long">>],
    [name |-> "AsShotICCProfile", code |-> \hC68F, fields |-> <<"Undefined">>],
    [name |-> "AsShotPreProfileMatrix", code |-> \hC690, fields |-> <<"SRational">>],
    [name |-> "CurrentICCProfile", code |-> \hC691, fields |-> <<"Undefined">>],
    [name |-> "CurrentPreProfileMatrix", code |-> \hC692, fields |-> <<"SRational">>],
    [name |-> "ColorimetricReference", code |-> \hC6BF, fields |-> <<"Short">>],
    [name |-> "CameraCalibrationSignature", code |-> \hC6F3, fields |-> <<"Byte">>],
    [name |-> "ProfileCalibrationSignature", code |-> \hC6F4, fields |-> <<"Byte">>],
    [name |-> "ExtraCameraProfiles", code |-> \hC6F5, fields |-> <<"Long">>],
    [name |-> "AsShotProfileName", code |-> \hC6F6, fields |-> <<"Byte">>],
    [name |-> "NoiseReductionApplied", code |-> \hC6F7, fields |-> <<"Rational">>],
    [name |-> "ProfileName", code |-> \hC6F8, fields |-> <<"Byte">>],
    [name |-> "ProfileHueSatMapDims", code |-> \hC6F9, fields |-> <<"Long">>],
    [name |-> "ProfileHueSatMapData1", code |-> \hC6FA, fields |-> <<"Float">>],
    [name |-> "ProfileHueSatMapData2", code |-> \hC6FB, fields |-> <<"Float">>],
    [name |-> "ProfileToneCurve", code |-> \hC6FC, fields |-> <<"Float">>],
    [name |-> "ProfileEmbedPolicy", code |-> \hC6FD, fields |-> <<"Long">>],
    [name |-> "ProfileCopyright", code |-> \hC6FE, fields |-> <<"Byte">>],
    [name |-> "ForwardMatrix1", code |-> \hC714, fields |-> <<"SRational">>],
    [name |-> "ForwardMatrix2", code |-> \hC715, fields |-> <<"SRational">>],
    [name |-> "PreviewApplicationName", code |-> \hC716, fields |-> <<"Byte">>],
    [name |-> "PreviewApplicationVersion", code |-> \hC717, fields |-> <<"Byte">>],
    [name |-> "PreviewSettingsName", code |-> \hC718, fields |-> <<"Byte">>],
    [name |-> "PreviewSettingsDigest", code |-> \hC719, fields |-> <<"Byte">>],
    [name |-> "PreviewColorSpace", code |-> \hC71A, fields |-> <<"Long">>],
    [name |-> "PreviewDateTime", code |-> \hC71B, fields |-> <<"Ascii">>],
    [name |-> "RawImageDigest", code |-> \hC71C, fields |-> <<"Undefined">>],
    [name |-> "OriginalRawFileDigest", code |-> \hC71D, fields |-> <<"Undefined">>],
    [name |-> "SubTileBlockSize", code |-> \hC71E, fields |-> <<"Long">>],
    [name |-> "RowInterleaveFactor", code |-> \hC71F, fields |-> <<"Long">>],
    [name |-> "ProfileLookTableDims", code |-> \hC725, fields |-> <<"Long">>],
    [name |-> "ProfileLookTableData", code |-> \hC726, fields |-> <<"Float">>],
    [name |-> "OpcodeList1", code |-> \hC740, fields |-> <<"Undefined">>],
    [name |-> "OpcodeList2", code |-> \hC741, fields |-> <<"Undefined">>],
    [name |-> "OpcodeList3", code |-> \hC74E, fields |-> <<"Undefined">>],
    [name |-> "NoiseProfile", code |-> \hC761, fields |-> <<"Double">>],
    [name |-> "TimeCodes", code |-> \hC763, fields |-> <<"Byte">>],
    [name |-> "FrameRate", code |-> \hC764, fields |-> <<"SRational">>],
    [name |-> "TStop", code |-> \hC772, fields |-> <<"SRational">>],
    [name |-> "ReelName", code |-> \hC789, fields |-> <<"Ascii">>],
    [name |-> "CameraLabel", code |-> \hC7A1, fields |-> <<"Ascii">>],
    [name |-> "OriginalDefaultFinalSize", code |-> \hC791, fields |-> <<"Long">>],
    [name |-> "OriginalBestQualityFinalSize", code |-> \hC792, fields |-> <<"Long">>],
    [name |-> "OriginalDefaultCropSize", code |-> \hC793, fields |-> <<"Long">>],
    [name |-> "ProfileHueSatMapEncoding", code |-> \hC7A3, fields |-> <<"Long">>],
    [name |-> "ProfileLookTableEncoding", code |-> \hC7A4, fields |-> <<"Long">>],
    [name |-> "BaselineExposureOffset", code |-> \hC7A5, fields |-> <<"SRational">>],
    [name |-> "DefaultBlackRender", code |-> \hC7A6, fields |-> <<"Long">>],
    [name |-> "NewRawImageDigest", code |-> \hC7A7, fields |-> <<"Byte">>],
    [name |-> "RawToPreviewGain", code |-> \hC7A8, fields |-> <<"Double">>],
    [name |-> "DefaultUserCrop", code |-> \hC7B5, fields |-> <<"Rational">>],
    [name |-> "DepthFormat", code |-> \hC7E9, fields |-> <<"Short">>],
    [name |-> "DepthNear", code |-> \hC7EA, fields |-> <<"Rational">>],
    [name |-> "DepthFar", code |-> \hC7EB, fields |-> <<"Rational">>],
    [name |-> "DepthUnits", code |-> \hC7EC, fields |-> <<"Short">>],
    [name |-> "DepthMeasureType", code |-> \hC7ED, fields |-> <<"Short">>],
    [name |-> "EnhanceParams", code |-> \hC7EE, fields |-> <<"Ascii">>],
    [name |-> "ProfileGainTableMap", code |-> \hCD2D, fields |-> <<"Undefined">>],
    [name |-> "SemanticName", code |-> \hCD2E, fields |-> <<"Ascii">>],
    [name |-> "SemanticInstanceID", code |-> \hCD30, fields |-> <<"Ascii">>],
    [name |-> "CalibrationIlluminant3", code |-> \hCD31, fields |-> <<"Short">>],
    [name |-> "CameraCalibration3", code |-> \hCD32, fields |-> <<"SRational">>],
    [name |-> "ColorMatrix3", code |-> \hCD33, fields |-> <<"SRational">>],
    [name |-> "ForwardMatrix3", code |-> \hCD34, fields |-> <<"SRational">>],
    [name |-> "IlluminantData1", code |-> \hCD35, fields |-> <<"Undefined">>],
    [name |-> "IlluminantData2", code |-> \hCD36, fields |-> <<"Undefined">>],
    [name |-> "IlluminantData3", code |-> \hCD37, fields |-> <<"Undefined">>],
    [name |-> "MaskSubArea", code |-> \hCD38, fields |-> <<"Long">>],
    [name |-> "ProfileHueSatMapData3", code |-> \hCD39, fields |-> <<"Float">>],
    [name |-> "ReductionMatrix3", code |-> \hCD3A, fields |-> <<"SRational">>],
    [name |-> "RGBTables", code |-> \hCD3B, fields |-> <<"Undefined">>],
    [name |-> "ProfileGainTableMap2", code |-> \hCD40, fields |-> <<"Undefined">>],
    [name |-> "ColumnInterleaveFactor", code |-> \hCD43, fields |-> <<"Long">>],
    [name |-> "ImageSequenceInfo", code |-> \hCD44, fields |-> <<"Undefined">>],
    [name |-> "ImageStats", code |-> \hCD46, fields |-> <<"Undefined">>],
    [name |-> "ProfileDynamicRange", code |-> \hCD47, fields |-> <<"Undefined">>],
    [name |-> "ProfileGroupName", code |-> \hCD48, fields |-> <<"Ascii">>],
    [name |-> "JXLDistance", code |-> \hCD49, fields |-> <<"Float">>],
    [name |-> "JXLEffort", code |-> \hCD4A, fields |-> <<"Long">>],
    [name |-> "JXLDecodeSpeed", code |-> \hCD4B, fields |-> <<"Long">>]
  >>

(* The discriminant of the k-th variant: #[repr(u16)] with explicit values. *)
DiscriminantDup(k) == IF k = 3 THEN Image[2].code ELSE Image[k].code

Discriminant(k) == Image[k].code

(***************************************************************************)
(* src/tag.rs: the variants of enum Tag in declaration order; only the      *)
(* Image variant has a tuple field.                                         *)
(***************************************************************************)
TagExtra ==
  <<
    [name |-> "Image", fields |-> <<"Image">>],
    [name |-> "Photo", fields |-> << >>],
    [name |-> "Iop", fields |-> << >>],
    [name |-> "GPSInfo", fields |-> << >>],
    [name |-> "MpfInfo", fields |-> << >>],
    [name |-> "Thumbnail", fields |-> << >>],
    [name |-> "Unknown", fields |-> << >>]
  >>

Tag ==
  <<
    [name |-> "Image", fields |-> <<"Image">>],
    [name |-> "Photo", fields |-> << >>],
    [name |-> "Iop", fields |-> << >>],
    [name |-> "GPSInfo", fields |-> << >>],
    [name |-> "MpfInfo", fields |-> << >>],
    [name |-> "Thumbnail", fields |-> << >>]
  >>

(***************************************************************************)
(* Integer arithmetic at the width of an integer kind.  TLC integers are    *)
(* 32-bit signed, so the limits are written without leaving that range.     *)
(***************************************************************************)
MinValue(T) == IF T.signed THEN (-(2^(T.bits - 2))) * 2 ELSE 0

InRange(T, x) ==
  IF T.signed
  THEN -(2^(T.bits - 2)) <= x \div 2 /\ x \div 2 < 2^(T.bits - 2)
  ELSE 0 <= x /\ x \div (2^(T.bits \div 2)) < 2^(T.bits \div 2)

Abs(x) == IF x < 0 THEN -x ELSE x

RECURSIVE Euclid(_, _)
Euclid(m, n) == IF n = 0 THEN m ELSE Euclid(n, m % n)

(* Integer::gcd: the greatest common divisor, never negative.  The callers  *)
(* below pass n # 0 and never the minimum value for both arguments.         *)
gcd(T, m, n) ==
  IF T.signed /\ n = MinValue(T)
  THEN Euclid(Abs(m), n % Abs(m))
  ELSE Euclid(Abs(n), m % Abs(n))

(***************************************************************************)
(* src/types.rs: Rational and SRational are fraction::GenericFraction over  *)
(* Long and SLong.  A GenericFraction is Rational(sign, Ratio), Infinity    *)
(* (sign) or NaN; Ratio is the numerator/denominator pair of num-rational.  *)
(***************************************************************************)
Rational == [T |-> Long]

SRational == [T |-> SLong]

FractionKinds == [Rational |-> Rational, SRational |-> SRational]

NaN == [tag |-> "NaN"]

Infinity(sign) == [tag |-> "Infinity", sign |-> sign]

Panic == [tag |-> "panic"]

(* T::zero() - x in Ratio::reduce: overflows only for the minimum value of  *)
(* a signed type, where a release build wraps back to the minimum value.    *)
NegOverflows(T, x) == T.signed /\ x = MinValue(T)

WrappingNeg(T, x) == IF NegOverflows(T, x) THEN x ELSE 0 - x

(* Ratio::new(numer, denom) for denom # 0: new_raw followed by reduce.      *)
(* The set of outcomes: one ratio, or, when "keep denom positive" negates   *)
(* the minimum value, a panic (overflow checks on) or the wrapped ratio.    *)
RatioNew(T, numer, denom) ==
  IF numer = 0 THEN {[numer |-> 0, denom |-> 1]}
  ELSE IF numer = denom THEN {[numer |-> 1, denom |-> 1]}
  ELSE LET g == gcd(T, numer, denom)
           n == numer \div g
           d == denom \div g
       IN  IF d < 0
           THEN IF NegOverflows(T, n) \/ NegOverflows(T, d)
                THEN {Panic, [numer |-> WrappingNeg(T, n), denom |-> WrappingNeg(T, d)]}
                ELSE {[numer |-> 0 - n, denom |-> 0 - d]}
           ELSE {[numer |-> n, denom |-> d]}

(* GenericFraction::new(num, den): a zero denominator gives NaN or          *)
(* Infinity, anything else a reduced ratio with sign Plus.                  *)
FractionNewCoerce(F, num, den) ==
  IF den = 0
  THEN {[tag |-> "Rational", sign |-> "Plus", numer |-> 0, denom |-> 1]}
  ELSE {IF r = Panic THEN Panic
        ELSE [tag |-> "Rational", sign |-> "Plus", numer |-> r.numer, denom |-> r.denom] :
        r \in RatioNew(F.T, num, den)}

FractionNew(F, num, den) ==
  IF den = 0
  THEN IF num = 0 THEN {NaN} ELSE {Infinity("Plus")}
  ELSE {IF r = Panic THEN Panic
        ELSE [tag |-> "Rational", sign |-> "Plus", numer |-> r.numer, denom |-> r.denom] :
        r \in RatioNew(F.T, num, den)}

(* -f (Neg for GenericFraction<T>): the sign is a field of the fraction,    *)
(* beside the Ratio<T>, so it flips for every T, unsigned T included.       *)
FractionNeg(f) ==
  IF f.tag = "NaN" THEN f
  ELSE [f EXCEPT !.sign = IF @ = "Plus" THEN "Minus" ELSE "Plus"]

(* GenericFraction::numer and ::denom: Some(value) for Rational, None for   *)
(* NaN and Infinity.                                                        *)
Numer(f) == IF f.tag = "Rational" THEN [some |-> f.numer] ELSE None

Denom(f) == IF f.tag = "Rational" THEN [some |-> f.denom] ELSE None

(* Ratio == Ratio is cmp(..) == Equal; cmp compares equal denominators or   *)
(* equal numerators directly and otherwise the floored quotients and then   *)
(* the reciprocals of the remainders.  The result is "eq", "ne" or, when    *)
(* div_mod_floor divides the minimum value by -1, "panic".                  *)
DivOverflows(T, n, d) == T.signed /\ n = MinValue(T) /\ d = -1

(* Integer::div_floor and ::mod_floor, written so that no intermediate      *)
(* value leaves the 32-bit range.                                           *)
DivFloor(n, d) == n \div d

ModFloor(T, n, d) ==
  IF d > 0 THEN n % d
  ELSE IF T.signed /\ d = MinValue(T)
       THEN (IF n = d THEN 0 ELSE IF n > 0 THEN n + d ELSE n)
  ELSE IF n % (0 - d) = 0 THEN 0 ELSE (n % (0 - d)) + d

RECURSIVE RatioCmpEq(_, _, _, _, _)
RatioCmpEq(T, ln, ld, rn, rd) ==
  IF ld = rd THEN (IF ln = rn THEN "eq" ELSE "ne")
  ELSE IF ln = rn THEN (IF ln = 0 THEN "eq" ELSE "ne")
  ELSE IF DivOverflows(T, ln, ld) \/ DivOverflows(T, rn, rd) THEN "panic"
  ELSE LET li == DivFloor(ln, ld)
           lr == ModFloor(T, ln, ld)
           ri == DivFloor(rn, rd)
           rr == ModFloor(T, rn, rd)
       IN  IF li # ri THEN "ne"
           ELSE IF lr = 0 /\ rr = 0 THEN "eq"
           ELSE IF lr = 0 \/ rr = 0 THEN "ne"
           ELSE RatioCmpEq(T, ld, lr, rd, rr)

(* GenericFraction == GenericFraction, through partial_cmp: NaN compares to *)
(* nothing, infinities by sign, ratios of the same sign by Ratio::cmp, and  *)
(* ratios of different sign are equal only when both are zero.              *)
FractionEq(F, l, r) ==
  IF l.tag = "NaN" \/ r.tag = "NaN" THEN "ne"
  ELSE IF l.tag = "Infinity" /\ r.tag = "Infinity"
       THEN (IF l.sign = r.sign THEN "eq" ELSE "ne")
  ELSE IF l.tag = "Infinity" \/ r.tag = "Infinity" THEN "ne"
  ELSE IF l.sign = r.sign
       THEN RatioCmpEq(F.T, l.numer, l.denom, r.numer, r.denom)
  ELSE IF l.numer = 0 /\ r.numer = 0 THEN "eq" ELSE "ne"

(***************************************************************************)
(* src/types.rs: the text kinds, and the size of a value of each kind.      *)
(***************************************************************************)
TextKinds == {"Ascii", "UTF8", "Comment"}

(* The fixed width in bytes of an element of a kind; 0 for the kinds of     *)
(* variable width (text and Undefined).                                     *)
Width(kind) ==
  IF kind \in DOMAIN IntKinds THEN IntKinds[kind].bits \div 8
  ELSE IF kind \in DOMAIN FractionKinds THEN 2 * (FractionKinds[kind].T.bits \div 8)
  ELSE IF kind = "Float" THEN 4
  ELSE IF kind = "Double" THEN 8
  ELSE 0

(***************************************************************************)
(* src/types.rs: Float and Double are IEEE-754 numbers (a value or NaN);    *)
(* Ascii is a String and Undefined a Vec<Byte>, both sequences of bytes.    *)
(***************************************************************************)
FloatNaN == [nan |-> TRUE, v |-> 0]

FloatOf(x) == [nan |-> FALSE, v |-> x]

FloatEq(x, y) == ~x.nan /\ ~y.nan /\ x = y

(* Sample inputs of each kind, the first MaxPayloads of each list. *)
Take(s) == {s[i] : i \in 1..Min(MaxPayloads, Len(s))}

IntSamples == Take(<<0, 1, 2, 3>>)

FractionSamples == Take(<<<<1, 2>>, <<0, 0>>, <<1, 3>>, <<1, 0>>>>)

FloatSamples == Take(<<FloatOf(0), FloatNaN, FloatOf(1)>>)

TextSamples == Take(<<<< >>, <<78>>, <<78, 105>>>>)

BytesSamples == Take(<<<< >>, <<0>>, <<0, 255>>>>)

(* The values of one kind that the model constructs. *)
ValuesOf(kind) ==
  IF kind \in DOMAIN IntKinds
  THEN {[kind |-> kind, v |-> x] : x \in {y \in IntSamples : InRange(IntKinds[kind], y)}}
  ELSE IF kind \in DOMAIN FractionKinds
  THEN {[kind |-> kind, v |-> f] :
        f \in UNION {FractionNew(FractionKinds[kind], p[1], p[2]) : p \in FractionSamples}}
  ELSE IF kind \in {"Float", "Double"}
  THEN {[kind |-> kind, v |-> x] : x \in FloatSamples}
  ELSE IF kind \in {"Ascii", "UTF8", "Comment"}
  THEN {[kind |-> kind, v |-> x] : x \in TextSamples}
  ELSE IF kind = "Undefined"
  THEN {[kind |-> kind, v |-> x] : x \in BytesSamples}
  ELSE {}

(* The argument lists of a tuple variant with the given field types. *)
ArgsOfNone(fields) == {<< >>}

ArgsOf(fields) ==
  IF Len(fields) = 0 THEN {<< >>}
  ELSE IF Len(fields) = 1 THEN {<<x>> : x \in ValuesOf(fields[1])}
  ELSE {<<x, y>> : x \in ValuesOf(fields[1]), y \in ValuesOf(fields[2])}

(* Image::Variant(args): the value carries the discriminant and the payload. *)
ImageNew(k, args) ==
  [name |-> Image[k].name, code |-> Discriminant(k), payload |-> args]

ImageValues ==
  UNION {{ImageNew(k, args) : args \in ArgsOf(Image[k].fields)} : k \in 1..Len(Image)}

(* Tag::Variant(args). *)
TagNew(j, args) == [ns |-> Tag[j].name, payload |-> args]

TagArgs(j) ==
  IF Tag[j].fields = <<"Image">> THEN {<<x>> : x \in ImageValues}
  ELSE ArgsOf(Tag[j].fields)

(* An equality of texts and byte sequences that compares only as many bytes *)
(* as the left operand has.                                                 *)
ValueEqPrefix(p, q) ==
  /\ p.kind = q.kind
  /\ IF p.kind \in DOMAIN FractionKinds
     THEN FractionEq(FractionKinds[p.kind], p.v, q.v) = "eq"
     ELSE IF p.kind \in {"Float", "Double"} THEN FloatEq(p.v, q.v)
     ELSE IF Width(p.kind) = 0
          THEN Len(p.v) <= Len(q.v) /\ p.v = SubSeq(q.v, 1, Len(p.v))
     ELSE p.v = q.v

(* PartialEq of a payload value: the equality of its type. *)
ValueEq(p, q) ==
  /\ p.kind = q.kind
  /\ IF p.kind \in DOMAIN FractionKinds
     THEN FractionEq(FractionKinds[p.kind], p.v, q.v) = "eq"
     ELSE IF p.kind \in {"Float", "Double"} THEN FloatEq(p.v, q.v)
     ELSE p.v = q.v

(* #[derive(PartialEq)] on Image: same discriminant and equal fields. *)
ImageEqAnyCode(x, y) ==
  /\ Len(x.payload) = Len(y.payload)
  /\ \A i \in 1..Len(x.payload) : ValueEq(x.payload[i], y.payload[i])

ImageEq(x, y) ==
  /\ x.code = y.code
  /\ Len(x.payload) = Len(y.payload)
  /\ \A i \in 1..Len(x.payload) : ValueEq(x.payload[i], y.payload[i])

(* #[derive(PartialEq)] on Tag: same variant and equal fields. *)
TagEq(s, t) ==
  /\ s.ns = t.ns
  /\ Len(s.payload) = Len(t.payload)
  /\ \A i \in 1..Len(s.payload) : ImageEq(s.payload[i], t.payload[i])

(***************************************************************************)
(* The caller of the value model: it builds two Tag values, compares them   *)
(* and drops them.                                                          *)
(***************************************************************************)
Init ==
  /\ pc = "start"
  /\ a = None
  /\ b = None
  /\ eq = FALSE
  /\ prim = None /\ fx = None /\ fy = None /\ feq = "none"
  /\ query = None /\ found = None
  /\ enc = None /\ dec = None /\ dec2 = None
  /\ held = None /\ ret = None
  /\ threads = None /\ heap = None

NewFirst ==
  /\ pc = "start"
  /\ \E j \in 1..Len(Tag) : \E args \in TagArgs(j) : a' = TagNew(j, args)
  /\ pc' = "one"
  /\ UNCHANGED <<b, eq>>
  /\ UNCHANGED primVars
  /\ UNCHANGED lookupVars
  /\ UNCHANGED <<codecVars, facadeVars>>
  /\ UNCHANGED <<threadVars, heapVars>>

NewSecond ==
  /\ pc = "one"
  /\ \E j \in 1..Len(Tag) : \E args \in TagArgs(j) : b' = TagNew(j, args)
  /\ pc' = "two"
  /\ UNCHANGED <<a, eq>>
  /\ UNCHANGED primVars
  /\ UNCHANGED lookupVars
  /\ UNCHANGED <<codecVars, facadeVars>>
  /\ UNCHANGED <<threadVars, heapVars>>

Compare ==
  /\ pc = "two"
  /\ eq' = TagEq(a, b)
  /\ pc' = "compared"
  /\ UNCHANGED <<a, b>>
  /\ UNCHANGED primVars
  /\ UNCHANGED lookupVars
  /\ UNCHANGED <<codecVars, facadeVars>>
  /\ UNCHANGED <<threadVars, heapVars>>

Drop ==
  /\ pc = "compared"
  /\ pc' = "start"
  /\ a' = None
  /\ b' = None
  /\ eq' = FALSE
  /\ UNCHANGED primVars
  /\ UNCHANGED lookupVars
  /\ UNCHANGED <<codecVars, facadeVars>>
  /\ UNCHANGED <<threadVars, heapVars>>

Next == NewFirst \/ NewSecond \/ Compare \/ Drop

Spec == Init /\ [][Next]_vars

(***************************************************************************)
(* The caller of the primitive layer: it builds an integer value of one of  *)
(* the integer kinds, or builds two fractions of one kind with              *)
(* GenericFraction::new and compares them.                                  *)
(***************************************************************************)
MaxSLong == (2^30 - 1) + 2^30

MinSLong == MinValue(SLong)

IntInputs ==
  (-MaxNum..MaxNum) \cup
  {MinSLong, -32769, -32768, -129, -128, 127, 128, 255, 256, 32767, 32768, 65535, 65536, MaxSLong}

FractionInputs(kind) ==
  {v \in (-MaxNum..MaxNum) \cup {MinSLong, MaxSLong} : InRange(FractionKinds[kind].T, v)}

InitPrimitive ==
  /\ pc = "start"
  /\ a = None /\ b = None /\ eq = FALSE
  /\ prim = None /\ fx = None /\ fy = None /\ feq = "none"
  /\ query = None /\ found = None
  /\ enc = None /\ dec = None /\ dec2 = None
  /\ held = None /\ ret = None
  /\ threads = None /\ heap = None

(* A value of an integer kind: only the values of the type exist. *)
NewInteger ==
  /\ pc = "start"
  /\ \E kind \in DOMAIN IntKinds : \E v \in IntInputs :
       /\ InRange(IntKinds[kind], v)
       /\ prim' = [kind |-> kind, v |-> v]
  /\ UNCHANGED <<pc, fx, fy, feq>>
  /\ UNCHANGED tagVars
  /\ UNCHANGED lookupVars
  /\ UNCHANGED <<codecVars, facadeVars>>
  /\ UNCHANGED <<threadVars, heapVars>>

(* GenericFraction::<T>::new(num, den); a panic ends the caller. *)
NewFractionFirst ==
  /\ pc = "start"
  /\ \E kind \in DOMAIN FractionKinds :
       \E num \in FractionInputs(kind), den \in FractionInputs(kind) :
         \E f \in FractionNew(FractionKinds[kind], num, den) :
           /\ fx' = [kind |-> kind, num |-> num, den |-> den, val |-> f]
           /\ pc' = IF f = Panic THEN "panicked" ELSE "one"
  /\ UNCHANGED <<prim, fy, feq>>
  /\ UNCHANGED tagVars
  /\ UNCHANGED lookupVars
  /\ UNCHANGED <<codecVars, facadeVars>>
  /\ UNCHANGED <<threadVars, heapVars>>

NewFractionSecond ==
  /\ pc = "one"
  /\ \E num \in FractionInputs(fx.kind), den \in FractionInputs(fx.kind) :
       \E f \in FractionNew(FractionKinds[fx.kind], num, den) :
         /\ fy' = [kind |-> fx.kind, num |-> num, den |-> den, val |-> f]
         /\ pc' = IF f = Panic THEN "panicked" ELSE "two"
  /\ UNCHANGED <<prim, fx, feq>>
  /\ UNCHANGED tagVars
  /\ UNCHANGED lookupVars
  /\ UNCHANGED <<codecVars, facadeVars>>
  /\ UNCHANGED <<threadVars, heapVars>>

(* fx == fy; a panic inside the comparison ends the caller. *)
CompareFractions ==
  /\ pc = "two"
  /\ feq' = FractionEq(FractionKinds[fx.kind], fx.val, fy.val)
  /\ pc' = IF feq' = "panic" THEN "panicked" ELSE "compared"
  /\ UNCHANGED <<prim, fx, fy>>
  /\ UNCHANGED tagVars
  /\ UNCHANGED lookupVars
  /\ UNCHANGED <<codecVars, facadeVars>>
  /\ UNCHANGED <<threadVars, heapVars>>

(* -fx, for a caller that wants the negative of the fraction it built. *)
NegateFraction ==
  /\ pc = "one"
  /\ fx' = [fx EXCEPT !.val = FractionNeg(@)]
  /\ pc' = "negated"
  /\ UNCHANGED <<prim, fy, feq>>
  /\ UNCHANGED tagVars
  /\ UNCHANGED lookupVars
  /\ UNCHANGED <<codecVars, facadeVars>>
  /\ UNCHANGED <<threadVars, heapVars>>

DropFractions ==
  /\ pc \in {"compared", "panicked", "negated"}
  /\ pc' = "start"
  /\ fx' = None /\ fy' = None /\ feq' = "none"
  /\ UNCHANGED prim
  /\ UNCHANGED tagVars
  /\ UNCHANGED lookupVars
  /\ UNCHANGED <<codecVars, facadeVars>>
  /\ UNCHANGED <<threadVars, heapVars>>

NextPrimitive ==
  \/ NewInteger \/ NewFractionFirst \/ NewFractionSecond \/ CompareFractions
  \/ NegateFraction \/ DropFractions

SpecPrimitive == InitPrimitive /\ [][NextPrimitive]_vars

(***************************************************************************)
(* The namespace registries and lookup(code).  The field definitions of the *)
(* Image namespace are the variants of enum Image; the other five           *)
(* namespaces are markers without fields.                                   *)
(***************************************************************************)
Codes == 0..65535

DeclaredTypeShifted(k) == Image[(k % Len(Image)) + 1].fields[1]

DeclaredType(k) == Image[k].fields[1]

(* #[deprecated] on a variant: the deprecated field and the field its note  *)
(* names as the one to use instead.                                         *)
DeprecatedDangling == [SubfileType |-> "OldSubfileType"]

Deprecated == [SubfileType |-> "NewSubfileType"]

SupersededBy(k) ==
  IF Image[k].name \in DOMAIN Deprecated THEN [some |-> Deprecated[Image[k].name]] ELSE None

FieldDefinition(k) ==
  [code |-> Discriminant(k), name |-> Image[k].name, type |-> DeclaredType(k)]

Registry(ns) ==
  IF ns = "Image" THEN [k \in 1..Len(Image) |-> FieldDefinition(k)] ELSE << >>

Registries == [j \in 1..Len(Tag) |-> Registry(Tag[j].name)]

Some(v) == [some |-> v]

lookupAnyNamespace(j, code) ==
  LET hits == {k \in 1..Len(Image) : FieldDefinition(k).code = code}
  IN  IF hits = {} THEN None ELSE Some(FieldDefinition(CHOOSE k \in hits : TRUE))

lookup(j, code) ==
  LET hits == {k \in DOMAIN Registries[j] : Registries[j][k].code = code}
  IN  IF hits = {} THEN None ELSE Some(Registries[j][CHOOSE k \in hits : TRUE])

InitLookup ==
  /\ pc = "start"
  /\ a = None /\ b = None /\ eq = FALSE
  /\ prim = None /\ fx = None /\ fy = None /\ feq = "none"
  /\ query = None /\ found = None
  /\ enc = None /\ dec = None /\ dec2 = None
  /\ held = None /\ ret = None
  /\ threads = None /\ heap = None

Lookup ==
  /\ pc = "start"
  /\ \E j \in 1..Len(Tag) : \E code \in Codes :
       /\ query' = [ns |-> Tag[j].name, code |-> code]
       /\ found' = lookup(j, code)
  /\ pc' = "returned"
  /\ UNCHANGED tagVars
  /\ UNCHANGED primVars
  /\ UNCHANGED <<codecVars, facadeVars>>
  /\ UNCHANGED <<threadVars, heapVars>>

(* The field values of one namespace that carry a given code: the values of *)
(* the Image variant with that discriminant; the marker variants of Tag     *)
(* carry no code.                                                           *)
FieldValuesOf(j, code) ==
  IF Tag[j].fields = <<"Image">>
  THEN UNION {{ImageNew(k, args) : args \in ArgsOf(Image[k].fields)} :
              k \in {i \in 1..Len(Image) : Discriminant(i) = code}}
  ELSE {}

(* A caller that wants to hold a field value carrying a code builds one     *)
(* with a constructor of the namespace's value type, if there is one.       *)
Hold ==
  /\ pc = "start"
  /\ \E j \in 1..Len(Tag) : \E code \in Codes :
       /\ query' = [ns |-> Tag[j].name, code |-> code]
       /\ found' = IF FieldValuesOf(j, code) = {} THEN None
                   ELSE Some(CHOOSE v \in FieldValuesOf(j, code) : TRUE)
  /\ pc' = "held"
  /\ UNCHANGED tagVars
  /\ UNCHANGED primVars
  /\ UNCHANGED <<codecVars, facadeVars>>
  /\ UNCHANGED <<threadVars, heapVars>>

Return ==
  /\ pc \in {"returned", "held"}
  /\ pc' = "start"
  /\ query' = None /\ found' = None
  /\ UNCHANGED tagVars
  /\ UNCHANGED primVars
  /\ UNCHANGED <<codecVars, facadeVars>>
  /\ UNCHANGED <<threadVars, heapVars>>

NextLookup == Lookup \/ Hold \/ Return

SpecLookup == InitLookup /\ [][NextLookup]_vars

(***************************************************************************)
(* decode and encode of the raw bytes of one field.  Raw bytes are          *)
(* sequences of 0..255 in native (little-endian) order; a decoded field     *)
(* value has the shape of an Image value whose payload is the sequence of   *)
(* decoded elements of the declared type.                                   *)
(***************************************************************************)
MaxRaw == 8

(* An integer of type T as its bytes, and back (two's complement). *)
EncodeInt(T, v) == [i \in 1..(T.bits \div 8) |-> (v \div (256^(i - 1))) % 256]

RECURSIVE Unsigned(_)
Unsigned(bytes) ==
  IF bytes = << >> THEN 0 ELSE Head(bytes) + 256 * Unsigned(Tail(bytes))

DecodeIntUnsigned(T, bytes) == Unsigned(bytes)

DecodeInt(T, bytes) ==
  LET n == Len(bytes)
      top == IF T.signed /\ bytes[n] >= 128 THEN bytes[n] - 256 ELSE bytes[n]
  IN  Unsigned(SubSeq(bytes, 1, n - 1)) + top * (256^(n - 1))

(* IEEE-754: a float value is NaN, a small non-negative integer x, or any   *)
(* other number, kept as its bit pattern.                                   *)
FloatOther(bytes) == [nan |-> FALSE, v |-> -1, bits |-> bytes]

Log2(x) == IF x >= 8 THEN 3 ELSE IF x >= 4 THEN 2 ELSE IF x >= 2 THEN 1 ELSE 0

IsSmallInt(f) == ~f.nan /\ f.v \in 0..15

EncodeFloat(f) ==
  IF f.nan THEN <<0, 0, 192, 127>>
  ELSE IF f.v = 0 THEN <<0, 0, 0, 0>>
  ELSE IF IsSmallInt(f)
  THEN LET e == Log2(f.v)
       IN  EncodeInt(Long, (127 + e) * (2^23) + (f.v - 2^e) * (2^(23 - e)))
  ELSE f.bits

DecodeFloat(bytes) ==
  LET sign == bytes[4] \div 128
      biased == (bytes[4] % 128) * 2 + bytes[3] \div 128
      mant == (bytes[3] % 128) * 65536 + bytes[2] * 256 + bytes[1]
      e == biased - 127
  IN  IF biased = 255 /\ mant # 0 THEN FloatNaN
      ELSE IF biased = 0 /\ mant = 0 THEN FloatOf(0)
      ELSE IF sign = 0 /\ e \in 0..3 /\ mant % (2^(23 - e)) = 0
      THEN FloatOf(2^e + mant \div (2^(23 - e)))
      ELSE FloatOther(bytes)

ZeroBytes(n) == [i \in 1..n |-> 0]

EncodeDouble(f) ==
  IF f.nan THEN ZeroBytes(6) \o <<248, 127>>
  ELSE IF f.v = 0 THEN ZeroBytes(8)
  ELSE IF IsSmallInt(f)
  THEN LET e == Log2(f.v)
           biased == 1023 + e
       IN  ZeroBytes(6) \o <<(biased % 16) * 16 + (f.v - 2^e) * (2^(4 - e)), biased \div 16>>
  ELSE f.bits

DecodeDouble(bytes) ==
  LET sign == bytes[8] \div 128
      biased == (bytes[8] % 128) * 16 + bytes[7] \div 16
      top4 == bytes[7] % 16
      low == SubSeq(bytes, 1, 6)
      e == biased - 1023
  IN  IF biased = 2047 /\ (top4 # 0 \/ low # ZeroBytes(6)) THEN FloatNaN
      ELSE IF biased = 0 /\ top4 = 0 /\ low = ZeroBytes(6) THEN FloatOf(0)
      ELSE IF sign = 0 /\ e \in 0..3 /\ low = ZeroBytes(6) /\ top4 % (2^(4 - e)) = 0
      THEN FloatOf(2^e + top4 \div (2^(4 - e)))
      ELSE FloatOther(bytes)

(* A fraction as numerator then denominator; NaN and Infinity have no       *)
(* numerator and denominator and are written as the sentinels 0/0 and 1/0.  *)
EncodeFraction(F, f) ==
  IF f.tag = "NaN" THEN EncodeInt(F.T, 0) \o EncodeInt(F.T, 0)
  ELSE IF f.tag = "Infinity" THEN EncodeInt(F.T, 1) \o EncodeInt(F.T, 0)
  ELSE EncodeInt(F.T, f.numer) \o EncodeInt(F.T, f.denom)

DecodeFraction(F, bytes) ==
  LET w == F.T.bits \div 8
  IN  FractionNew(F, DecodeInt(F.T, SubSeq(bytes, 1, w)),
                     DecodeInt(F.T, SubSeq(bytes, w + 1, 2 * w)))

(* Text: the in-memory value excludes the terminating NUL; decoding strips  *)
(* exactly one trailing NUL if present and an empty payload is the empty    *)
(* string.                                                                  *)
EncodeText(t) == t \o <<0>>

DecodeTextStripAll(raw) ==
  LET live == {i \in 1..Len(raw) : raw[i] # 0}
  IN  IF live = {} THEN << >>
      ELSE SubSeq(raw, 1, CHOOSE i \in live : \A j \in live : j <= i)

DecodeText(raw) ==
  IF raw # << >> /\ raw[Len(raw)] = 0 THEN SubSeq(raw, 1, Len(raw) - 1) ELSE raw

(* One element of a fixed-width kind: the set of outcomes of decoding it. *)
DecodeElement(kind, bytes) ==
  IF kind \in DOMAIN IntKinds
  THEN {[kind |-> kind, v |-> DecodeInt(IntKinds[kind], bytes)]}
  ELSE IF kind \in DOMAIN FractionKinds
  THEN {[kind |-> kind, v |-> f] : f \in DecodeFraction(FractionKinds[kind], bytes)}
  ELSE IF kind = "Float" THEN {[kind |-> kind, v |-> DecodeFloat(bytes)]}
  ELSE {[kind |-> kind, v |-> DecodeDouble(bytes)]}

EncodeElement(p) ==
  IF p.kind \in DOMAIN IntKinds THEN EncodeInt(IntKinds[p.kind], p.v)
  ELSE IF p.kind \in DOMAIN FractionKinds THEN EncodeFraction(FractionKinds[p.kind], p.v)
  ELSE IF p.kind = "Float" THEN EncodeFloat(p.v)
  ELSE IF p.kind = "Double" THEN EncodeDouble(p.v)
  ELSE IF p.kind \in TextKinds THEN EncodeText(p.v)
  ELSE p.v

(* The sequences of elements decoded from raw bytes of a fixed-width kind. *)
RECURSIVE DecodeElements(_, _)
DecodeElements(kind, raw) ==
  IF raw = << >> THEN {<< >>}
  ELSE LET w == Width(kind)
       IN  {<<x>> \o rest : x \in DecodeElement(kind, SubSeq(raw, 1, w)),
                            rest \in DecodeElements(kind, SubSeq(raw, w + 1, Len(raw)))}

Ok(v) == [ok |-> v]

Err(kind) == [err |-> kind]

(* Parsing raw bytes according to the declared type of the k-th field: the  *)
(* set of outcomes.  A numeric field decodes as raw.len() / width elements  *)
(* and a remainder is Truncated.                                            *)
Parse(k, raw) ==
  LET kind == FieldDefinition(k).type
  IN  IF kind \in TextKinds
      THEN {Ok(ImageNew(k, <<[kind |-> kind, v |-> DecodeText(raw)]>>))}
      ELSE IF Width(kind) = 0
      THEN {Ok(ImageNew(k, <<[kind |-> kind, v |-> raw]>>))}
      ELSE IF Len(raw) % Width(kind) # 0
      THEN {Err("Truncated")}
      ELSE {IF kind \in DOMAIN FractionKinds /\ \E i \in 1..Len(elems) : elems[i].v = Panic
            THEN Err("panic")
            ELSE Ok(ImageNew(k, elems)) : elems \in DecodeElements(kind, raw)}

decodeUnchecked(k, supplied, raw) == Parse(k, raw)

(* decode(code, raw) for the k-th field, with the type the caller supplies  *)
(* (None when it supplies none): the type is checked first.                 *)
decode(k, supplied, raw) ==
  LET kind == FieldDefinition(k).type
  IN  IF supplied # None /\ supplied.some # kind THEN {Err("TypeMismatch")}
      ELSE Parse(k, raw)

RECURSIVE EncodeAll(_)
EncodeAll(elems) ==
  IF elems = << >> THEN << >> ELSE EncodeElement(Head(elems)) \o EncodeAll(Tail(elems))

(* encode(value): the raw bytes of the elements of the value. *)
encode(value) == EncodeAll(value.payload)

(***************************************************************************)
(* The caller of the codec: it decodes raw bytes of a field, encodes a      *)
(* field value and decodes the bytes back, or decodes the same number for   *)
(* the deprecated SubfileType and for its replacement NewSubfileType.       *)
(***************************************************************************)
RawBytes == {0, 78}

RawInputs == UNION {[1..n -> RawBytes] : n \in 0..MaxRaw}

KindNames ==
  DOMAIN IntKinds \cup DOMAIN FractionKinds \cup TextKinds \cup {"Float", "Double", "Undefined"}

SuppliedTypes == {None} \cup {Some(t) : t \in KindNames}

IndexOf(name) == CHOOSE k \in 1..Len(Image) : Image[k].name = name

Nikon == <<78, 105, 107, 111, 110>>

ExampleValues ==
  {ImageNew(IndexOf("Make"), <<[kind |-> "Ascii", v |-> Nikon]>>),
   ImageNew(IndexOf("Make"), <<[kind |-> "Ascii", v |-> <<78, 0>>]>>),
   ImageNew(IndexOf("XClipPathUnits"), <<[kind |-> "SShort", v |-> -1]>>),
   ImageNew(IndexOf("SubfileType"), <<[kind |-> "Short", v |-> 65535]>>),
   ImageNew(IndexOf("JPEGTables"), <<[kind |-> "Undefined", v |-> <<0, 255>>]>>)}
  \cup {ImageNew(IndexOf("BaselineExposure"), <<[kind |-> "SRational", v |-> f]>>) :
        f \in FractionNew(SRational, -1, 2) \cup FractionNew(SRational, 1, 0)}
  \cup {ImageNew(IndexOf("NoiseProfile"), <<[kind |-> "Double", v |-> FloatOf(x)]>>) :
        x \in {1, 3}}
  \cup {ImageNew(IndexOf("JXLDistance"), <<[kind |-> "Float", v |-> FloatOf(x)]>>) :
        x \in {1, 3}}

CodecValues == ImageValues \cup ExampleValues

PairInputs == (0..MaxNum) \cup {255, 256, 32767, 32768, 65535}

InitCodec ==
  /\ pc = "start"
  /\ a = None /\ b = None /\ eq = FALSE
  /\ prim = None /\ fx = None /\ fy = None /\ feq = "none"
  /\ query = None /\ found = None
  /\ enc = None /\ dec = None /\ dec2 = None
  /\ held = None /\ ret = None
  /\ threads = None /\ heap = None

Decoded(k, supplied, raw, r) ==
  [k |-> k, code |-> Discriminant(k), supplied |-> supplied, raw |-> raw, res |-> r]

(* A collaborator hands over the raw bytes of one field. *)
Receive ==
  /\ pc = "start"
  /\ \E raw \in RawInputs : dec' = [raw |-> raw]
  /\ pc' = "received"
  /\ UNCHANGED <<enc, dec2>>
  /\ UNCHANGED <<tagVars, primVars, lookupVars, facadeVars>>
  /\ UNCHANGED <<threadVars, heapVars>>

(* decode of the received bytes for one field, with or without a type. *)
Decode ==
  /\ pc = "received"
  /\ \E k \in 1..Len(Image) : \E supplied \in SuppliedTypes :
       \E r \in decode(k, supplied, dec.raw) : dec' = Decoded(k, supplied, dec.raw, r)
  /\ pc' = "decoded"
  /\ UNCHANGED <<enc, dec2>>
  /\ UNCHANGED <<tagVars, primVars, lookupVars, facadeVars>>
  /\ UNCHANGED <<threadVars, heapVars>>

Encode ==
  /\ pc = "start"
  /\ \E k \in 1..Len(Image) : \E v \in {w \in CodecValues : w.code = Discriminant(k)} :
       enc' = [k |-> k, value |-> v, raw |-> encode(v)]
  /\ pc' = "encoded"
  /\ UNCHANGED <<dec, dec2>>
  /\ UNCHANGED <<tagVars, primVars, lookupVars, facadeVars>>
  /\ UNCHANGED <<threadVars, heapVars>>

DecodeBack ==
  /\ pc = "encoded"
  /\ \E r \in decode(enc.k, None, enc.raw) : dec' = Decoded(enc.k, None, enc.raw, r)
  /\ pc' = "roundtrip"
  /\ UNCHANGED <<enc, dec2>>
  /\ UNCHANGED <<tagVars, primVars, lookupVars, facadeVars>>
  /\ UNCHANGED <<threadVars, heapVars>>

DecodePair ==
  /\ pc = "start"
  /\ \E n \in PairInputs :
       LET old == IndexOf("SubfileType")
           new == IndexOf("NewSubfileType")
           rawOld == EncodeInt(IntKinds[DeclaredType(old)], n)
           rawNew == EncodeInt(IntKinds[DeclaredType(new)], n)
       IN  /\ enc' = [n |-> n]
           /\ \E r \in decode(old, None, rawOld) : dec' = Decoded(old, None, rawOld, r)
           /\ \E r \in decode(new, None, rawNew) : dec2' = Decoded(new, None, rawNew, r)
  /\ pc' = "pair"
  /\ UNCHANGED <<tagVars, primVars, lookupVars, facadeVars>>
  /\ UNCHANGED <<threadVars, heapVars>>

Finish ==
  /\ pc \in {"decoded", "roundtrip", "pair"}
  /\ pc' = "start"
  /\ enc' = None /\ dec' = None /\ dec2' = None
  /\ UNCHANGED <<tagVars, primVars, lookupVars, facadeVars>>
  /\ UNCHANGED <<threadVars, heapVars>>

NextCodec == Receive \/ Decode \/ Encode \/ DecodeBack \/ DecodePair \/ Finish

SpecCodec == InitCodec /\ [][NextCodec]_vars

(***************************************************************************)
(* The Tag facade: namespace() and the narrowing accessors, one match on    *)
(* the variant of the Tag value each.                                       *)
(***************************************************************************)
namespace(t) == Tag[CHOOSE j \in 1..Len(Tag) : Tag[j].name = t.ns].name

(* The payload of the variant: the wrapped Image value, or the unit of a    *)
(* marker variant.                                                          *)
Wrapped(t) == IF Len(t.payload) = 1 THEN t.payload[1] ELSE t.payload

narrow(name, t) == IF t.ns = name THEN Some(Wrapped(t)) ELSE None

as_imageWrongArm(t) == narrow("Photo", t)

as_image(t) == narrow("Image", t)

InitFacade ==
  /\ pc = "start"
  /\ a = None /\ b = None /\ eq = FALSE
  /\ prim = None /\ fx = None /\ fy = None /\ feq = "none"
  /\ query = None /\ found = None
  /\ enc = None /\ dec = None /\ dec2 = None
  /\ held = None /\ ret = None
  /\ threads = None /\ heap = None

(* A caller holds a Tag value. *)
NewTag ==
  /\ pc = "start"
  /\ \E j \in 1..Len(Tag) : \E args \in TagArgs(j) : held' = TagNew(j, args)
  /\ pc' = "built"
  /\ UNCHANGED ret
  /\ UNCHANGED <<tagVars, primVars, lookupVars, codecVars>>
  /\ UNCHANGED <<threadVars, heapVars>>

Namespace ==
  /\ pc = "built"
  /\ ret' = [op |-> "namespace", out |-> namespace(held)]
  /\ pc' = "answered"
  /\ UNCHANGED held
  /\ UNCHANGED <<tagVars, primVars, lookupVars, codecVars>>
  /\ UNCHANGED <<threadVars, heapVars>>

AsImage ==
  /\ pc = "built"
  /\ ret' = [op |-> "as", ns |-> "Image", out |-> as_image(held)]
  /\ pc' = "answered"
  /\ UNCHANGED held
  /\ UNCHANGED <<tagVars, primVars, lookupVars, codecVars>>
  /\ UNCHANGED <<threadVars, heapVars>>

(* as_photo(), as_iop(), ...: the accessor of one of the marker namespaces. *)
AsMarker ==
  /\ pc = "built"
  /\ \E j \in 2..Len(Tag) :
       ret' = [op |-> "as", ns |-> Tag[j].name, out |-> narrow(Tag[j].name, held)]
  /\ pc' = "answered"
  /\ UNCHANGED held
  /\ UNCHANGED <<tagVars, primVars, lookupVars, codecVars>>
  /\ UNCHANGED <<threadVars, heapVars>>

Release ==
  /\ pc = "answered"
  /\ pc' = "start"
  /\ held' = None /\ ret' = None
  /\ UNCHANGED <<tagVars, primVars, lookupVars, codecVars>>
  /\ UNCHANGED <<threadVars, heapVars>>

NextFacade == NewTag \/ Namespace \/ AsImage \/ AsMarker \/ Release

SpecFacade == InitFacade /\ [][NextFacade]_vars

(***************************************************************************)
(* Callers on several threads.  lookup, decode and encode take their        *)
(* inputs by value or by shared reference and read only the registries,     *)
(* which are immutable; the source declares no static, no unsafe block and  *)
(* no interior mutability.  A call is two steps, so that calls of different *)
(* threads interleave: the thread enters the function with its arguments in *)
(* its own frame, then the function computes the result from that frame.    *)
(***************************************************************************)
MaxThreads == 2

Idle == [pc |-> "idle", call |-> None, out |-> None]

Calls ==
  {[op |-> "lookup", j |-> j, code |-> code] :
     j \in {1, 2}, code \in {255, 50034, 51041, 65535}}
  \cup {[op |-> "decode", k |-> IndexOf(name), supplied |-> None, raw |-> raw] :
          name \in {"Make", "SubfileType", "FrameRate"},
          raw \in {<< >>, <<78, 0>>, <<1, 0, 0, 0, 2, 0, 0, 0>>}}
  \cup {[op |-> "encode", value |-> v] : v \in ExampleValues}

(* The results of a call when it runs alone. *)
Apply(c) ==
  IF c.op = "lookup" THEN {lookup(c.j, c.code)}
  ELSE IF c.op = "decode" THEN decode(c.k, c.supplied, c.raw)
  ELSE {encode(c.value)}

(* A function that kept its arguments in one static slot instead of the     *)
(* caller's frame would read the arguments of whichever thread wrote last.  *)
FrameShared(ts, i) == IF ts[1].pc # "idle" THEN ts[1].call ELSE ts[i].call

(* The arguments a running call reads: those of its own thread. *)
Frame(ts, i) == ts[i].call

InitConcurrent ==
  /\ pc = "start"
  /\ a = None /\ b = None /\ eq = FALSE
  /\ prim = None /\ fx = None /\ fy = None /\ feq = "none"
  /\ query = None /\ found = None
  /\ enc = None /\ dec = None /\ dec2 = None
  /\ held = None /\ ret = None
  /\ threads = [i \in 1..MaxThreads |-> Idle] /\ heap = None

Call ==
  /\ \E i \in 1..MaxThreads : \E c \in Calls :
       /\ threads[i].pc = "idle"
       /\ threads' = [threads EXCEPT ![i] = [pc |-> "called", call |-> c, out |-> None]]
  /\ UNCHANGED <<pc, tagVars, primVars, lookupVars, codecVars, facadeVars, heapVars>>

Run ==
  /\ \E i \in 1..MaxThreads :
       /\ threads[i].pc = "called"
       /\ \E r \in Apply(Frame(threads, i)) :
            threads' = [threads EXCEPT ![i] = [pc |-> "returned", call |-> @.call, out |-> r]]
  /\ UNCHANGED <<pc, tagVars, primVars, lookupVars, codecVars, facadeVars, heapVars>>

Join ==
  /\ \E i \in 1..MaxThreads :
       /\ threads[i].pc = "returned"
       /\ threads' = [threads EXCEPT ![i] = Idle]
  /\ UNCHANGED <<pc, tagVars, primVars, lookupVars, codecVars, facadeVars, heapVars>>

NextConcurrent == Call \/ Run \/ Join

SpecConcurrent == InitConcurrent /\ [][NextConcurrent]_vars

(***************************************************************************)
(* Ownership of payloads.  A String or Vec<Byte> payload is a buffer on the *)
(* heap that the value points to; every other payload is stored in the     *)
(* value itself.  The heap is the sequence of the buffers allocated so far, *)
(* a pointer is an index into it and 0 means that the value has no buffer.  *)
(* The derived Clone of Tag and Image clones each field, and the clone of a *)
(* String or of a Vec is a new buffer with the same contents.               *)
(***************************************************************************)
HasBuffer(t) ==
  /\ Len(t.payload) = 1
  /\ Len(t.payload[1].payload) = 1
  /\ Width(t.payload[1].payload[1].kind) = 0

Buffer(t) == t.payload[1].payload[1].v

WithBuffer(t, bytes) == [t EXCEPT !.payload[1].payload[1].v = bytes]

(* The Tag value t as it lies in memory once it is built. *)
Owned(h, t) ==
  IF HasBuffer(t)
  THEN [value |-> [shape |-> WithBuffer(t, << >>), ptr |-> Len(h) + 1],
        heap |-> Append(h, Buffer(t))]
  ELSE [value |-> [shape |-> t, ptr |-> 0], heap |-> h]

(* The Tag value that x is, read through its pointer. *)
Deref(h, x) == IF x.ptr = 0 THEN x.shape ELSE WithBuffer(x.shape, h[x.ptr])

(* A clone that copied the pointer instead of the buffer. *)
cloneShallow(h, x) == [value |-> x, heap |-> h]

(* x.clone(). *)
clone(h, x) ==
  IF x.ptr = 0 THEN [value |-> x, heap |-> h]
  ELSE [value |-> [shape |-> x.shape, ptr |-> Len(h) + 1],
        heap |-> Append(h, h[x.ptr])]

(* What the caller does to the payload of the clone: String::push,          *)
(* Vec::push or clear.                                                      *)
Changes == {"push 0", "push 255", "clear"}

Change(bytes, how) ==
  IF how = "clear" THEN << >>
  ELSE IF how = "push 0" THEN Append(bytes, 0)
  ELSE Append(bytes, 255)

InitClone ==
  /\ pc = "start"
  /\ a = None /\ b = None /\ eq = FALSE
  /\ prim = None /\ fx = None /\ fy = None /\ feq = "none"
  /\ query = None /\ found = None
  /\ enc = None /\ dec = None /\ dec2 = None
  /\ held = None /\ ret = None
  /\ threads = None /\ heap = << >>

(* let a = Tag::Variant(args); held remembers the value as it was built. *)
NewOwned ==
  /\ pc = "start"
  /\ \E j \in 1..Len(Tag) : \E args \in TagArgs(j) :
       LET o == Owned(heap, TagNew(j, args))
       IN  /\ a' = o.value
           /\ heap' = o.heap
           /\ held' = TagNew(j, args)
  /\ pc' = "owned"
  /\ UNCHANGED <<b, eq, ret>>
  /\ UNCHANGED <<primVars, lookupVars, codecVars, threadVars>>

(* let b = a.clone(); *)
Clone ==
  /\ pc = "owned"
  /\ LET c == clone(heap, a)
     IN  /\ b' = c.value
         /\ heap' = c.heap
  /\ pc' = "cloned"
  /\ UNCHANGED <<a, eq, held, ret>>
  /\ UNCHANGED <<primVars, lookupVars, codecVars, threadVars>>

(* The caller changes the string or byte payload of the clone in place. *)
ChangeClone ==
  /\ pc = "cloned"
  /\ b.ptr # 0
  /\ \E how \in Changes : heap' = [heap EXCEPT ![b.ptr] = Change(@, how)]
  /\ pc' = "changed"
  /\ UNCHANGED <<a, b, eq, held, ret>>
  /\ UNCHANGED <<primVars, lookupVars, codecVars, threadVars>>

(* Both values go out of scope and their buffers are freed. *)
DropBoth ==
  /\ pc \in {"cloned", "changed"}
  /\ pc' = "start"
  /\ a' = None /\ b' = None /\ held' = None
  /\ heap' = << >>
  /\ UNCHANGED <<eq, ret>>
  /\ UNCHANGED <<primVars, lookupVars, codecVars, threadVars>>

NextClone == NewOwned \/ Clone \/ ChangeClone \/ DropBoth

SpecClone == InitClone /\ [][NextClone]_vars

(***************************************************************************)
(* A caller that compares three Tag values with == in every direction that  *)
(* the laws of an equivalence relation speak of.  The second and the third  *)
(* value are taken near the one before: the same variant or a neighbouring  *)
(* variant of the same namespace, or a marker.                              *)
(***************************************************************************)
TagValues == UNION {{TagNew(j, args) : args \in TagArgs(j)} : j \in 1..Len(Tag)}

VariantIndex(t) == IF Len(t.payload) = 0 THEN 0 ELSE IndexOf(t.payload[1].name)

Near(t) ==
  {u \in TagValues :
     \/ Len(u.payload) = 0 /\ u.ns \in {t.ns, "Photo"}
     \/ /\ Len(u.payload) = 1 /\ Len(t.payload) = 1
        /\ VariantIndex(u) - VariantIndex(t) \in {0, 1}}

InitEquality ==
  /\ pc = "start"
  /\ a = None /\ b = None /\ eq = FALSE
  /\ prim = None /\ fx = None /\ fy = None /\ feq = "none"
  /\ query = None /\ found = None
  /\ enc = None /\ dec = None /\ dec2 = None
  /\ held = None /\ ret = None
  /\ threads = None /\ heap = None

TakeFirst ==
  /\ pc = "start"
  /\ \E t \in TagValues : a' = t
  /\ pc' = "x"
  /\ UNCHANGED <<b, eq, held, ret>>
  /\ UNCHANGED <<primVars, lookupVars, codecVars, threadVars, heapVars>>

TakeSecond ==
  /\ pc = "x"
  /\ \E t \in Near(a) : b' = t
  /\ pc' = "xy"
  /\ UNCHANGED <<a, eq, held, ret>>
  /\ UNCHANGED <<primVars, lookupVars, codecVars, threadVars, heapVars>>

TakeThird ==
  /\ pc = "xy"
  /\ \E t \in Near(b) : held' = t
  /\ pc' = "xyz"
  /\ UNCHANGED <<a, b, eq, ret>>
  /\ UNCHANGED <<primVars, lookupVars, codecVars, threadVars, heapVars>>

(* x == x, x == y, y == x, y == z, x == z. *)
CompareAll ==
  /\ pc = "xyz"
  /\ ret' = [xx |-> TagEq(a, a), xy |-> TagEq(a, b), yx |-> TagEq(b, a),
             yz |-> TagEq(b, held), xz |-> TagEq(a, held)]
  /\ pc' = "related"
  /\ UNCHANGED <<a, b, eq, held>>
  /\ UNCHANGED <<primVars, lookupVars, codecVars, threadVars, heapVars>>

DropAll ==
  /\ pc = "related"
  /\ pc' = "start"
  /\ a' = None /\ b' = None /\ held' = None /\ ret' = None
  /\ UNCHANGED eq
  /\ UNCHANGED <<primVars, lookupVars, codecVars, threadVars, heapVars>>

NextEquality == TakeFirst \/ TakeSecond \/ TakeThird \/ CompareAll \/ DropAll

SpecEquality == InitEquality /\ [][NextEquality]_vars

(***************************************************************************)
(* Properties of the value model.                                           *)
(***************************************************************************)
HeldTags == {t \in {a, b} : t # None}

HeldImages == {t.payload[1] : t \in {u \in HeldTags : u.ns = "Image"}}

(* C1: in the Image registry numeric codes are unique and 16-bit: no two    *)
(* distinct field definitions carry the same code, so two Image values have *)
(* the same code exactly when they are of the same field.                   *)
DiscriminantsDistinct ==
  /\ \A i, j \in 1..Len(Image) : Discriminant(i) = Discriminant(j) => i = j
  /\ \A i \in 1..Len(Image) : Discriminant(i) \in 0..65535

C1_CodesUnique ==
  /\ DiscriminantsDistinct
  /\ \A x, y \in HeldImages :
       /\ x.code \in 0..65535
       /\ x.code = y.code <=> x.name = y.name

W1_TwoFields ==
  /\ pc = "two"
  /\ a.ns = "Image" /\ b.ns = "Image"
  /\ a.payload[1].name # b.payload[1].name
  /\ a.payload[1].code # b.payload[1].code

(* C2: every field definition of the Image registry declares exactly one    *)
(* payload type, one of the twelve primitive kinds, so every Image value    *)
(* carries exactly one payload of such a kind.                              *)
PrimitiveKinds ==
  {"Byte", "SShort", "Short", "SLong", "Long", "Rational", "SRational",
   "Float", "Double", "Ascii", "UTF8", "Undefined"}

DeclaredOnePrimitive ==
  \A k \in 1..Len(Image) :
    Len(Image[k].fields) = 1 /\ Image[k].fields[1] \in PrimitiveKinds

C2_OnePrimitivePayload ==
  /\ DeclaredOnePrimitive
  /\ \A x \in HeldImages :
       Len(x.payload) = 1 /\ x.payload[1].kind \in PrimitiveKinds

W2_ImageHeld ==
  /\ pc = "one"
  /\ a.ns = "Image"
  /\ a.payload[1].name = "Make"
  /\ a.payload[1].payload[1].kind = "Ascii"

(* C3: two Tag values are equal iff they denote the same (namespace, code)  *)
(* pair with equal payload: never across namespaces, never across codes     *)
(* even with equal payloads, and for one code exactly when the payloads     *)
(* are equal.                                                               *)
SamePayload(x, y) ==
  /\ Len(x.payload) = Len(y.payload)
  /\ \A i \in 1..Len(x.payload) : ValueEq(x.payload[i], y.payload[i])

C3_TagEquality ==
  pc = "compared" =>
    /\ a.ns # b.ns => ~eq
    /\ a.ns = b.ns /\ a.ns # "Image" => eq
    /\ a.ns = "Image" /\ b.ns = "Image" /\ a.payload[1].code # b.payload[1].code => ~eq
    /\ a.ns = "Image" /\ b.ns = "Image" /\ a.payload[1].code = b.payload[1].code =>
         (eq <=> SamePayload(a.payload[1], b.payload[1]))

W3_OtherCodeSamePayload ==
  /\ pc = "compared"
  /\ a.ns = "Image" /\ b.ns = "Image"
  /\ a.payload[1].code # b.payload[1].code
  /\ SamePayload(a.payload[1], b.payload[1])
  /\ ~eq

(* C4: Tag is a closed sum with exactly one variant for each of the six     *)
(* namespaces; the Image variant wraps an Image value and the other five    *)
(* carry no payload.                                                        *)
Namespaces == {"Image", "Photo", "Iop", "GPSInfo", "MpfInfo", "Thumbnail"}

OneVariantPerNamespace ==
  /\ Len(Tag) = 6
  /\ {Tag[j].name : j \in 1..Len(Tag)} = Namespaces

C4_ClosedSum ==
  /\ OneVariantPerNamespace
  /\ \A t \in HeldTags :
       /\ t.ns \in Namespaces
       /\ t.ns = "Image" => Len(t.payload) = 1 /\ t.payload[1] \in ImageValues
       /\ t.ns # "Image" => t.payload = << >>

W4_ImageAndMarker ==
  /\ pc = "two"
  /\ a.ns = "Image"
  /\ b.ns = "Thumbnail"

(***************************************************************************)
(* Properties of the primitive layer.                                       *)
(***************************************************************************)
(* The exact product of two 32-bit integers, as a sign and the base-2048    *)
(* digits of its magnitude, so that no intermediate value overflows.        *)
Sign(v) == IF v < 0 THEN -1 ELSE IF v > 0 THEN 1 ELSE 0

NegMagnitude(v) == IF v > 0 THEN 0 - v ELSE v

RECURSIVE DigitsOfNeg(_, _)
DigitsOfNeg(nv, count) ==
  IF count = 0 THEN << >>
  ELSE LET d0 == (2048 - (nv % 2048)) % 2048
       IN  <<d0>> \o DigitsOfNeg((nv + d0) \div 2048, count - 1)

Digits(v) == DigitsOfNeg(NegMagnitude(v), 3)

RECURSIVE Carry(_, _)
Carry(coeffs, carry) ==
  IF coeffs = << >> THEN <<carry>>
  ELSE <<(Head(coeffs) + carry) % 2048>> \o Carry(Tail(coeffs), (Head(coeffs) + carry) \div 2048)

ExactProduct(v, w) ==
  LET p == Digits(v)
      q == Digits(w)
  IN  [sign |-> Sign(v) * Sign(w),
       digits |-> Carry(<<p[1] * q[1],
                          p[1] * q[2] + p[2] * q[1],
                          p[1] * q[3] + p[2] * q[2] + p[3] * q[1],
                          p[2] * q[3] + p[3] * q[2],
                          p[3] * q[3]>>, 0)]

CrossEqual(n1, d1, n2, d2) == ExactProduct(n1, d2) = ExactProduct(n2, d1)

Built(f) == f # None

(* C5: Rational and SRational equality is cross-multiplication: for all     *)
(* 32-bit numerators a, c and non-zero denominators b, d the fractions      *)
(* new(a, b) and new(c, d) are produced and compare equal iff a*d = c*b     *)
(* computed without overflow.                                               *)
C5_CrossMultiplication ==
  /\ \A f \in {g \in {fx, fy} : Built(g)} : f.den # 0 => f.val # Panic
  /\ feq = "panic" => (fx.den = 0 \/ fy.den = 0)
  /\ pc = "compared" /\ fx.den # 0 /\ fy.den # 0 =>
       (feq = "eq" <=> CrossEqual(fx.num, fx.den, fy.num, fy.den))

(* C6: a rational constructed from a pair (n, 0) is passed through          *)
(* unchanged: its numerator accessor returns n and its denominator          *)
(* accessor returns 0.                                                      *)
C6_ZeroDenominatorPassThrough ==
  \A f \in {g \in {fx, fy} : Built(g)} :
    f.den = 0 => Numer(f.val) = [some |-> f.num] /\ Denom(f.val) = [some |-> 0]

(* C7: Rational(0,0) is produced without error and is equal neither to a    *)
(* fraction with a non-zero denominator nor to Rational(1,0).               *)
IsUnknown(f) == f.num = 0 /\ f.den = 0

C7_UnknownDistinguishable ==
  /\ \A f \in {g \in {fx, fy} : Built(g)} : IsUnknown(f) => f.val # Panic
  /\ pc \in {"compared", "panicked"} /\ Built(fy) /\ fy.val # Panic =>
       /\ IsUnknown(fx) /\ (fy.den # 0 \/ (fy.num = 1 /\ fy.den = 0)) => feq = "ne"
       /\ IsUnknown(fy) /\ (fx.den # 0 \/ (fx.num = 1 /\ fx.den = 0)) => feq = "ne"

W7_UnknownAgainstInfinity ==
  /\ pc = "compared"
  /\ fx.kind = "Rational"
  /\ IsUnknown(fx)
  /\ fy.num = 1 /\ fy.den = 0
  /\ feq = "ne"

(* C8: the integer kinds have exactly the ranges Byte 0..255, Short         *)
(* 0..65535, SShort -32768..32767, Long 0..2^32-1 and SLong -2^31..2^31-1,  *)
(* and no payload of such a kind holds a value outside its range.  2^32-1   *)
(* is written as a quotient: v <= 2^32-1 iff v \div 65536 <= 65535.         *)
KindLimits ==
  /\ InRange(Byte, 0) /\ InRange(Byte, 255) /\ ~InRange(Byte, -1) /\ ~InRange(Byte, 256)
  /\ InRange(Short, 0) /\ InRange(Short, 65535)
  /\ ~InRange(Short, -1) /\ ~InRange(Short, 65536)
  /\ InRange(SShort, -32768) /\ InRange(SShort, 32767)
  /\ ~InRange(SShort, -32769) /\ ~InRange(SShort, 32768)
  /\ InRange(Long, 0) /\ InRange(Long, 2147483647) /\ ~InRange(Long, -1)
  /\ Long.bits = 32 /\ ~Long.signed
  /\ InRange(SLong, -2147483647 - 1) /\ InRange(SLong, 2147483647)
  /\ SLong.bits = 32 /\ SLong.signed

C8_IntegerRanges ==
  /\ KindLimits
  /\ prim # None =>
       /\ prim.kind = "Byte" => prim.v \in 0..255
       /\ prim.kind = "Short" => prim.v \in 0..65535
       /\ prim.kind = "SShort" => prim.v \in -32768..32767
       /\ prim.kind = "Long" => 0 <= prim.v /\ prim.v \div 65536 <= 65535
       /\ prim.kind = "SLong" => -2147483647 - 1 <= prim.v /\ prim.v <= 2147483647

W8_ShortAtMaximum ==
  /\ prim # None
  /\ prim.kind = "Short"
  /\ prim.v = 65535

(***************************************************************************)
(* Properties of lookup.                                                    *)
(***************************************************************************)
KnownCodes == {Image[k].code : k \in 1..Len(Image)}

Known(q) == q.ns = "Image" /\ q.code \in KnownCodes

(* C9: for every namespace and every 16-bit code that is not a known field  *)
(* of that namespace, lookup(code) returns None and never fails.            *)
C9_UnknownCodeNotFound ==
  pc = "returned" /\ ~Known(query) => found = None

W9_UnknownImageCode ==
  /\ pc = "returned"
  /\ query = [ns |-> "Image", code |-> 65535]
  /\ found = None

(* C10: for every known code of the Image namespace lookup(code) returns    *)
(* the definition whose code is the input code and whose declared type is   *)
(* the payload type of that field in enum Image; lookup(0x010F) is Make     *)
(* with type Ascii.                                                         *)
C10_KnownCodeFound ==
  pc = "returned" /\ Known(query) =>
    /\ found # None
    /\ found.some.code = query.code
    /\ \E k \in 1..Len(Image) :
         /\ Image[k].code = query.code
         /\ found.some.name = Image[k].name
         /\ found.some.type = Image[k].fields[1]
    /\ query.code = \h010F => found.some.name = "Make" /\ found.some.type = "Ascii"

W10_MakeFound ==
  /\ pc = "returned"
  /\ query = [ns |-> "Image", code |-> \h010F]
  /\ found = Some([code |-> \h010F, name |-> "Make", type |-> "Ascii"])

(* C11: a field whose code is not in a namespace's registry is              *)
(* representable: for every 16-bit code, known or not, a caller can hold a  *)
(* field value carrying that code.                                          *)
C11_EveryCodeRepresentable ==
  pc = "held" => found # None /\ found.some.code = query.code


(***************************************************************************)
(* Properties of the codec.                                                 *)
(***************************************************************************)
IsOk(r) == "ok" \in DOMAIN r

IsErr(r, kind) == "err" \in DOMAIN r /\ r.err = kind

RoundTripped == IsOk(dec.res) /\ ImageEq(dec.res.ok, enc.value)

IsFieldValue(k, v) ==
  /\ v.code = Discriminant(k)
  /\ Len(v.payload) = Len(Image[k].fields)
  /\ \A i \in 1..Len(v.payload) : v.payload[i].kind = Image[k].fields[i]

TypeAccepted == dec.supplied = None \/ dec.supplied.some = DeclaredType(dec.k)

C14_TypeMismatchExactly ==
  pc = "decoded" => (IsErr(dec.res, "TypeMismatch") <=> ~TypeAccepted)

W14_MismatchOnShortBuffer ==
  /\ pc = "decoded"
  /\ Image[dec.k].name = "ImageWidth"
  /\ dec.supplied = Some("Short")
  /\ Len(dec.raw) = 3
  /\ IsErr(dec.res, "TypeMismatch")

Last(seq) == seq[Len(seq)]

IsText(p) == p.kind \in TextKinds

(* C15: encoding a text of n characters gives n+1 bytes ending in 0x00;     *)
(* decoding a text field never fails and removes one trailing NUL if there  *)
(* is one and nothing else, so the empty payload gives the empty string and *)
(* the 6 bytes of the encoded "Nikon" give back the 5 characters.           *)
C15_AsciiNul ==
  /\ pc \in {"encoded", "roundtrip"} /\ IsText(enc.value.payload[1]) =>
       /\ Len(enc.raw) = Len(enc.value.payload[1].v) + 1
       /\ Last(enc.raw) = 0
  /\ pc = "roundtrip" /\ IsText(enc.value.payload[1]) /\ enc.value.payload[1].v = Nikon =>
       /\ Len(enc.raw) = 6
       /\ IsOk(dec.res) /\ dec.res.ok.payload[1].v = Nikon
  /\ pc = "decoded" /\ TypeAccepted /\ DeclaredType(dec.k) \in TextKinds =>
       /\ IsOk(dec.res)
       /\ LET t == dec.res.ok.payload[1].v
          IN  IF dec.raw # << >> /\ Last(dec.raw) = 0
              THEN t \o <<0>> = dec.raw
              ELSE t = dec.raw

W15_OneNulOfTwoStripped ==
  /\ pc = "decoded"
  /\ Image[dec.k].name = "Make"
  /\ dec.raw = <<78, 0, 0>>
  /\ IsOk(dec.res) /\ dec.res.ok.payload[1].v = <<78, 0>>

(* The pairs of different namespaces whose registries define one code with  *)
(* different declared types.                                                *)
SharedCodes ==
  {p \in (DOMAIN Registries) \X (DOMAIN Registries) :
     /\ p[1] # p[2]
     /\ \E d \in DOMAIN Registries[p[1]] : \E e \in DOMAIN Registries[p[2]] :
          /\ Registries[p[1]][d].code = Registries[p[2]][e].code
          /\ Registries[p[1]][d].type # Registries[p[2]][e].type}

(* C16: there is a numeric code defined in two different namespaces with    *)
(* different declared types, so that the same raw bytes decode differently  *)
(* depending on the namespace whose registry is used.  The registries are   *)
(* constants, so this is stated for the caller before any lookup.           *)
C16_NamespaceDisambiguation ==
  pc = "start" => SharedCodes # {}

(***************************************************************************)
(* Properties of the facade.                                                *)
(***************************************************************************)
IsNone(x) == "none" \in DOMAIN x

(* C17: namespace() is total on the facade: for every Tag value it returns  *)
(* one of the six namespaces, the one named by the variant of the value,    *)
(* and nothing else (no failure outcome).                                   *)
C17_NamespaceTotal ==
  pc = "answered" /\ ret.op = "namespace" =>
    /\ ret.out \in Namespaces
    /\ ret.out = held.ns

W17_NamespaceOfMarker ==
  /\ pc = "answered"
  /\ ret.op = "namespace"
  /\ held = TagNew(4, << >>)
  /\ ret.out = "GPSInfo"

(* C18: as_image() returns the wrapped Image value if and only if the Tag   *)
(* value is of the Image namespace and nothing for the other five           *)
(* namespaces; likewise each accessor of another namespace returns          *)
(* something exactly for the values of its namespace.                       *)
C18_Narrowing ==
  pc = "answered" /\ ret.op = "as" =>
    IF held.ns = ret.ns
    THEN ~IsNone(ret.out) /\ (ret.ns = "Image" => ret.out.some = held.payload[1])
    ELSE IsNone(ret.out)

W18_ImageNarrowed ==
  /\ pc = "answered"
  /\ ret.op = "as" /\ ret.ns = "Image"
  /\ held.ns = "Image"
  /\ ~IsNone(ret.out) /\ ret.out.some.name = "Make"

(***************************************************************************)
(* Properties of deprecated fields.                                         *)
(***************************************************************************)
(* Every deprecation marker belongs to a field of the registry and names a  *)
(* field of the registry that is not deprecated.                            *)
MarkersSound ==
  \A k \in 1..Len(Image) :
    SupersededBy(k) = None \/
      \E m \in 1..Len(Image) :
        /\ Image[m].name = SupersededBy(k).some
        /\ SupersededBy(m) = None

MarkersAttached ==
  \A n \in DOMAIN Deprecated : \E k \in 1..Len(Image) : Image[k].name = n

(* C19: a deprecated field stays in its registry with its code and payload  *)
(* type (SubfileType: 0x00FF, Short), and its marker names a field of the   *)
(* same registry that is not deprecated (NewSubfileType, 0x00FE).           *)
C19_DeprecatedKept ==
  /\ MarkersSound /\ MarkersAttached
  /\ pc = "returned" /\ query = [ns |-> "Image", code |-> \h00FF] =>
       /\ found = Some([code |-> \h00FF, name |-> "SubfileType", type |-> "Short"])
       /\ Deprecated[found.some.name] = "NewSubfileType"
  /\ pc = "returned" /\ query = [ns |-> "Image", code |-> \h00FE] =>
       /\ found # None
       /\ found.some.name = Deprecated.SubfileType
       /\ found.some.name \notin DOMAIN Deprecated

W19_SubfileTypeFound ==
  /\ pc = "returned"
  /\ query = [ns |-> "Image", code |-> \h00FF]
  /\ found # None
  /\ found.some.name \in DOMAIN Deprecated

PairValue(d) == d.res.ok.payload[1]

(* C20: decoding the bytes of the same number for the deprecated            *)
(* SubfileType (as Short) and for NewSubfileType (as Long) succeeds for     *)
(* both and gives the same number, each under its declared type.            *)
C20_DeprecationTransparency ==
  pc = "pair" =>
    /\ IsOk(dec.res) /\ IsOk(dec2.res)
    /\ dec.res.ok.name = "SubfileType" /\ PairValue(dec).kind = "Short"
    /\ dec2.res.ok.name = "NewSubfileType" /\ PairValue(dec2).kind = "Long"
    /\ PairValue(dec).v = PairValue(dec2).v
    /\ PairValue(dec).v = enc.n

W20_LargestShortDecodedTwice ==
  /\ pc = "pair"
  /\ enc.n = 65535
  /\ IsOk(dec.res) /\ PairValue(dec).v = 65535
  /\ IsOk(dec2.res) /\ PairValue(dec2).v = 65535

SeveralElementFields == {"DNGVersion", "RawDataUniqueID", "ColorMatrix1"}

(* The largest number of elements a payload of a kind holds: a text or an   *)
(* Undefined payload is a String or a Vec<Byte> of any length (MaxRaw       *)
(* here), a payload of any other kind is one scalar.                        *)
MaxElements(kind) == IF Width(kind) = 0 THEN MaxRaw ELSE 1

(* C22: each field documented as holding several elements has a declared    *)
(* payload type that holds a sequence of more than one element.             *)
C22_SeveralElementsHeld ==
  pc = "start" =>
    \A name \in SeveralElementFields : MaxElements(DeclaredType(IndexOf(name))) > 1


IsProperFraction(v) ==
  v.tag = "Rational" /\ v.sign = "Plus" /\ v.numer >= 0 /\ v.denom > 0

FrameRatesHeld ==
  {t.payload[1] : t \in {u \in HeldTags : u.ns = "Image" /\ u.payload[1].name = "FrameRate"}}

(* C24: every FrameRate (0xC764) value that is constructed holds a fraction *)
(* with a non-negative numerator and a positive denominator.                *)
C24_FrameRateProper ==
  \A x \in FrameRatesHeld : IsProperFraction(x.payload[1].v)

(* A fraction that is not negative: 0/0 (NaN) and n/0 (Infinity) count as   *)
(* fractions with denominator 0.                                            *)
IsNonNegativeFraction(v) ==
  \/ v.tag = "NaN"
  \/ v.tag = "Infinity" /\ v.sign = "Plus"
  \/ v.tag = "Rational" /\ v.sign = "Plus" /\ v.numer >= 0 /\ v.denom >= 0

(* C25: every value of the unsigned Rational kind denotes a non-negative    *)
(* fraction of two numbers of the range of Long; only SRational represents  *)
(* a negative value.                                                        *)
C25_RationalNonNegative ==
  \A f \in {g \in {fx, fy} : Built(g)} :
    f.kind = "Rational" /\ f.val # Panic => IsNonNegativeFraction(f.val)


(***************************************************************************)
(* Properties of ownership.                                                 *)
(***************************************************************************)
(* C26: a clone has the variant and the payload of the original, and is ==  *)
(* to it whenever the original is == to itself; the clone has a buffer of   *)
(* its own, and whatever is done to that buffer the original still is the   *)
(* value it was built as.                                                   *)
C26_CloneOwnsPayload ==
  /\ pc = "cloned" =>
       /\ Deref(heap, b) = Deref(heap, a)
       /\ TagEq(Deref(heap, a), Deref(heap, a)) => TagEq(Deref(heap, b), Deref(heap, a))
       /\ a.ptr # 0 => b.ptr # a.ptr
  /\ pc \in {"owned", "cloned", "changed"} => Deref(heap, a) = held

(* The clone of a value with a text of one byte was cleared or grew, and    *)
(* the original still has its one byte.                                     *)
W26_CloneChangedOriginalKept ==
  /\ pc = "changed"
  /\ Len(heap[a.ptr]) = 1
  /\ Len(heap[b.ptr]) # 1
  /\ Deref(heap, a) = held


(***************************************************************************)
(* Properties of equality as a relation.                                    *)
(***************************************************************************)
(* The payload of the value is a Float or Double NaN or the fraction NaN    *)
(* that GenericFraction::new(0, 0) gives.                                   *)
HasNaN(t) ==
  /\ Len(t.payload) = 1
  /\ \E i \in 1..Len(t.payload[1].payload) :
       LET p == t.payload[1].payload[i]
       IN  \/ p.kind \in {"Float", "Double"} /\ p.v.nan
           \/ p.kind \in DOMAIN FractionKinds /\ p.v.tag = "NaN"

DeclaredCodes == [k \in 1..Len(Image) |-> FieldDefinition(k).code]

StrictlyIncreasing(codes) ==
  \A k \in 1..(Len(codes) - 1) : codes[k] < codes[k + 1]

(* Binary search for a code between positions lo and hi of a sequence of    *)
(* codes: the position of the code, or 0.                                   *)
RECURSIVE BinarySearch(_, _, _, _)
BinarySearch(codes, code, lo, hi) ==
  IF lo > hi THEN 0
  ELSE LET mid == (lo + hi) \div 2
       IN  IF codes[mid] = code THEN mid
           ELSE IF codes[mid] < code THEN BinarySearch(codes, code, mid + 1, hi)
           ELSE BinarySearch(codes, code, lo, mid - 1)

InDeclarationOrder == StrictlyIncreasing(DeclaredCodes)

(* C28: the field definitions of the Image registry are declared in         *)
(* strictly increasing order of code, and every code that lookup finds in   *)
(* the Image registry is found by a binary search in declaration order.     *)
C28_RegistrySorted ==
  /\ pc = "start" => InDeclarationOrder
  /\ pc = "returned" /\ query.ns = "Image" /\ ~IsNone(found) =>
       BinarySearch(DeclaredCodes, query.code, 1, Len(DeclaredCodes)) # 0


(* The fields whose doc comments say "A UTF-8 encoded string". *)
Utf8Fields ==
  {"CameraCalibrationSignature", "ProfileCalibrationSignature", "AsShotProfileName",
   "ProfileName", "ProfileCopyright", "PreviewApplicationName",
   "PreviewApplicationVersion", "PreviewSettingsName", "ProfileGroupName"}

(* C29: the UTF-8 string fields all declare the same payload type, and the  *)
(* type that lookup reports for each of them holds a string of more than    *)
(* one byte.                                                                *)
C29_Utf8FieldsAlike ==
  /\ pc = "start" =>
       \A m, n \in Utf8Fields : DeclaredType(IndexOf(m)) = DeclaredType(IndexOf(n))
  /\ pc = "returned" /\ query.ns = "Image" /\ ~IsNone(found) =>
       (found.some.name \in Utf8Fields => MaxElements(found.some.type) > 1)

====
